---- MODULE Spec2Model ----
(***************************************************************************)
(* Model of the redaction audit scripts: detect_and_recover_redactions.py, *)
(* find_improper_redactions.py, random_sample_test.py,                    *)
(* test_box_text_overlap.py and redact_extract_optimized.py.              *)
(*                                                                         *)
(* Coordinates are integers and a threshold is a fraction <<num, den>>;    *)
(* the float comparison  inter / area >= threshold  of the code is the     *)
(* exact comparison  inter * den >= num * area  (Python's division is      *)
(* correctly rounded and rounding is monotone, so the two agree whenever   *)
(* the quotient and the threshold are not within one rounding of each     *)
(* other without being equal, which small integers never are).            *)
(***************************************************************************)
EXTENDS Integers, Sequences, FiniteSets, TLC

VARIABLES
    pc,          \* position of the modelled call / program
    glyphRect,   \* overlap predicates: the glyph rectangle
    boxRect,     \* overlap predicates: the box rectangle
    threshold,   \* overlap predicates: the threshold, <<num, den>>
    verdict,     \* overlap predicates: what each predicate returned
    doc,         \* document analysis: the PDF handed to the analysers
    redactionBoxes, \* document analysis: redaction_boxes of analyze_pdf_for_redactions
    textCheck,   \* document analysis: text_check of analyze_pdf_for_redactions
    analysis,    \* document analysis: result of analyze_pdf_for_redactions
    improper,    \* document analysis: result of test_pdf
    quick,       \* document analysis: result of test_pdf_quick
    prog,        \* programs: which script's main() is running
    args,        \* programs: the parsed command line
    files,       \* programs: pdf_files / input_files, the documents by position
    pending,     \* programs: results of the pool tasks that have completed
    results,     \* programs: the list of analysis results
    report,      \* programs: the report written by save_analysis_report
    toProcess,   \* programs: to_process of process_redacted_pdfs
    idx,         \* programs: position of the batch loop (1-based)
    renderLog,   \* programs: the render attempts so far, in order
    console,     \* programs: the error messages printed
    exitStatus,  \* programs: exit status of the process once pc = "exited"
    highlighted, \* document analysis: the output of create_highlighted_output
    fillColor,   \* darkness test: the fill colour of the drawing
    blackThreshold, \* darkness test: the threshold, in hundredths
    darkVerdict, \* darkness test: which extractors returned a box
    words,       \* line reconstruction: the words of the page
    lineParams,  \* line reconstruction: line_tol, space_unit_pts, min_spaces
    clusters,    \* line reconstruction: result of group_words_into_lines
    pageLines,   \* line reconstruction: result of process_single_page
    rebuilt,     \* line reconstruction: each cluster built, and built again from its text
    source,      \* rendering: the pages of input_pdf (size and words)
    running,     \* rendering: the task each pool worker is working on, or 0
    nextTask,    \* rendering: the next task of args_list to hand out
    arrived,     \* rendering: the finished tasks, in the order they finished
    pagesLines,  \* rendering: pages_lines of extract_lines_parallel
    pageRects,   \* rendering: page_rects of extract_lines_parallel
    outPages     \* rendering: the pages of the output document so far

geomVars == <<glyphRect, boxRect, threshold, verdict>>
docVars == <<doc, redactionBoxes, textCheck, analysis, improper, quick,
             highlighted>>
progVars == <<prog, args, files, pending, results, report, toProcess, idx,
              renderLog, console, exitStatus>>
darkVars == <<fillColor, blackThreshold, darkVerdict>>
lineVars == <<words, lineParams, clusters, pageLines, rebuilt>>
renderVars == <<source, running, nextTask, arrived, pagesLines, pageRects,
                outPages>>
otherVars == <<darkVars, lineVars, renderVars>>
vars == <<pc, geomVars, docVars, progVars, otherVars>>

Max(a, b) == IF a >= b THEN a ELSE b
Min(a, b) == IF a <= b THEN a ELSE b

(***************************************************************************)
(* Overlap predicates                                                      *)
(***************************************************************************)

\* Largest coordinate of the rectangles the predicates are tried on.
MaxCoord == 2
\* Thresholds k / ThrDen, k in 1..ThrDen, are tried (all in (0,1]).
ThrDen == 4

\* overlap_threshold=0.5 of check_text_under_boxes / rectangles_overlap
DefaultOverlapThreshold == <<1, 2>>
\* threshold=0.3 of boxes_overlap (find_improper_redactions, random_sample_test)
\* and of the call in test_redaction_overlap
BoxesOverlapThreshold == <<3, 10>>

Rect(x0, y0, x1, y1) == [x0 |-> x0, y0 |-> y0, x1 |-> x1, y1 |-> y1]

\* rectangles_overlap with the comparison made exclusive.
rectangles_overlap_exclusive(bbox1, bbox2, thr) ==
    LET x0_i == Max(bbox1.x0, bbox2.x0)
        y0_i == Max(bbox1.y0, bbox2.y0)
        x1_i == Min(bbox1.x1, bbox2.x1)
        y1_i == Min(bbox1.y1, bbox2.y1)
        intersection_area == (x1_i - x0_i) * (y1_i - y0_i)
        bbox1_area == (bbox1.x1 - bbox1.x0) * (bbox1.y1 - bbox1.y0)
    IN  IF x0_i >= x1_i \/ y0_i >= y1_i THEN FALSE
        ELSE IF bbox1_area = 0 THEN FALSE
        ELSE intersection_area * thr[2] > thr[1] * bbox1_area

\* rectangles_overlap taking the ratio over the area of bbox2.
rectangles_overlap_bbox2_area(bbox1, bbox2, thr) ==
    LET x0_i == Max(bbox1.x0, bbox2.x0)
        y0_i == Max(bbox1.y0, bbox2.y0)
        x1_i == Min(bbox1.x1, bbox2.x1)
        y1_i == Min(bbox1.y1, bbox2.y1)
        intersection_area == (x1_i - x0_i) * (y1_i - y0_i)
        bbox2_area == (bbox2.x1 - bbox2.x0) * (bbox2.y1 - bbox2.y0)
    IN  IF x0_i >= x1_i \/ y0_i >= y1_i THEN FALSE
        ELSE IF bbox2_area = 0 THEN FALSE
        ELSE intersection_area * thr[2] >= thr[1] * bbox2_area

\* rectangles_overlap without the early return for an empty intersection.
rectangles_overlap_no_guard(bbox1, bbox2, thr) ==
    LET x0_i == Max(bbox1.x0, bbox2.x0)
        y0_i == Max(bbox1.y0, bbox2.y0)
        x1_i == Min(bbox1.x1, bbox2.x1)
        y1_i == Min(bbox1.y1, bbox2.y1)
        intersection_area == (x1_i - x0_i) * (y1_i - y0_i)
        bbox1_area == (bbox1.x1 - bbox1.x0) * (bbox1.y1 - bbox1.y0)
    IN  IF bbox1_area = 0 THEN FALSE
        ELSE intersection_area * thr[2] >= thr[1] * bbox1_area

\* detect_and_recover_redactions.rectangles_overlap(bbox1, bbox2, threshold):
\* the ratio is taken over the area of bbox1, the first argument.
rectangles_overlap(bbox1, bbox2, thr) ==
    LET x0_i == Max(bbox1.x0, bbox2.x0)
        y0_i == Max(bbox1.y0, bbox2.y0)
        x1_i == Min(bbox1.x1, bbox2.x1)
        y1_i == Min(bbox1.y1, bbox2.y1)
        intersection_area == (x1_i - x0_i) * (y1_i - y0_i)
        bbox1_area == (bbox1.x1 - bbox1.x0) * (bbox1.y1 - bbox1.y0)
    IN  IF x0_i >= x1_i \/ y0_i >= y1_i THEN FALSE
        ELSE IF bbox1_area = 0 THEN FALSE
        ELSE intersection_area * thr[2] >= thr[1] * bbox1_area

\* boxes_overlap taking the ratio over the area of box1, the box.
boxes_overlap_box1_area(box1, box2, thr) ==
    LET x0_i == Max(box1.x0, box2.x0)
        y0_i == Max(box1.y0, box2.y0)
        x1_i == Min(box1.x1, box2.x1)
        y1_i == Min(box1.y1, box2.y1)
        intersection == (x1_i - x0_i) * (y1_i - y0_i)
        box_area == (box1.x1 - box1.x0) * (box1.y1 - box1.y0)
    IN  IF x0_i >= x1_i \/ y0_i >= y1_i THEN FALSE
        ELSE IF box_area > 0
             THEN intersection * thr[2] >= thr[1] * box_area
             ELSE FALSE

\* find_improper_redactions.boxes_overlap(box1, box2, threshold): the ratio is
\* taken over the area of box2, the second argument (the character).
boxes_overlap(box1, box2, thr) ==
    LET x0_i == Max(box1.x0, box2.x0)
        y0_i == Max(box1.y0, box2.y0)
        x1_i == Min(box1.x1, box2.x1)
        y1_i == Min(box1.y1, box2.y1)
        intersection == (x1_i - x0_i) * (y1_i - y0_i)
        char_area == (box2.x1 - box2.x0) * (box2.y1 - box2.y0)
    IN  IF x0_i >= x1_i \/ y0_i >= y1_i THEN FALSE
        ELSE IF char_area > 0
             THEN intersection * thr[2] >= thr[1] * char_area
             ELSE FALSE

\* random_sample_test.boxes_overlap(box1, box2, threshold)
boxes_overlap_sample(box1, box2, thr) ==
    LET x0_i == Max(box1.x0, box2.x0)
        y0_i == Max(box1.y0, box2.y0)
        x1_i == Min(box1.x1, box2.x1)
        y1_i == Min(box1.y1, box2.y1)
        intersection == (x1_i - x0_i) * (y1_i - y0_i)
        char_area == (box2.x1 - box2.x0) * (box2.y1 - box2.y0)
    IN  IF x0_i >= x1_i \/ y0_i >= y1_i THEN FALSE
        ELSE IF char_area > 0
             THEN intersection * thr[2] >= thr[1] * char_area
             ELSE FALSE

\* test_box_text_overlap.boxes_overlap(box1, box2, threshold)
boxes_overlap_test(box1, box2, thr) ==
    LET x0_i == Max(box1.x0, box2.x0)
        y0_i == Max(box1.y0, box2.y0)
        x1_i == Min(box1.x1, box2.x1)
        y1_i == Min(box1.y1, box2.y1)
        intersection_area == (x1_i - x0_i) * (y1_i - y0_i)
        char_area == (box2.x1 - box2.x0) * (box2.y1 - box2.y0)
    IN  IF x0_i >= x1_i \/ y0_i >= y1_i THEN FALSE
        ELSE IF char_area = 0 THEN FALSE
        ELSE intersection_area * thr[2] >= thr[1] * char_area

(***************************************************************************)
(* Documents                                                               *)
(*                                                                         *)
(* A document is what the two PDF libraries report of a file: for each     *)
(* page the vector drawings (type tag, fill colour, rect), the text-dict   *)
(* blocks (type 1 = image, bbox) and the characters (text, x0, top, x1,    *)
(* bottom), plus where reading the file fails.  Colour channels are in     *)
(* hundredths (0..100 for 0.0..1.0); a missing fill is the empty tuple.    *)
(* Page numbers in results are 0-based, as enumerate() gives them.         *)
(*                                                                         *)
(* fault.kind = "open": fitz.open and pdfplumber.open both raise.          *)
(* fault.kind = "page": on page fault.page, page.get_drawings() raises     *)
(*   (fault.fitz = "drawings"), or page.get_text("dict") raises            *)
(*   (fault.fitz = "blocks"), and/or page.chars raises (fault.plumber).    *)
(* printRaises: the print() in an except handler itself raises (a path or  *)
(*   message the console cannot encode, a closed stdout), which is the     *)
(*   only way an exception leaves detect_black_rectangles or               *)
(*   check_text_under_boxes.                                               *)
(***************************************************************************)

NoFault == [kind |-> "none", page |-> 0, fitz |-> "none", plumber |-> FALSE]

FitzOpenFails(d) == d.fault.kind = "open"
PlumberOpenFails(d) == d.fault.kind = "open"
FitzFails(d, i, stage) ==
    d.fault.kind = "page" /\ d.fault.page = i /\ d.fault.fitz = stage
PlumberFails(d, i) ==
    d.fault.kind = "page" /\ d.fault.page = i /\ d.fault.plumber

\* black_threshold=0.15 of detect_black_rectangles
DetectBlackThreshold == 15
\* the literal 0.2 of find_improper_redactions.get_black_boxes
BlackBoxLiteral == 20
\* black_threshold=0.2 of random_sample_test.get_black_boxes
SampleBlackThreshold == 20

\* Truth value of a fitz.Rect: false only for the all-zero rectangle.
RectTruthy(rect) == rect # Rect(0, 0, 0, 0)

Box(page_num, rect) ==
    [page |-> page_num, x0 |-> rect.x0, y0 |-> rect.y0,
     x1 |-> rect.x1, y1 |-> rect.y1]

RECURSIVE FlatMap(_, _)
\* concatenation of the sequences f[1], f[2], ..., f[n]
FlatMap(f, n) == IF n = 0 THEN <<>> ELSE FlatMap(f, n - 1) \o f[n]

\* FilledDarkBoxes taking a channel equal to the threshold for light.
FilledDarkBoxesStrict(drawings, page_num, black_threshold) ==
    FlatMap([k \in 1..Len(drawings) |->
        LET drawing == drawings[k]
            rect == drawing.rect
            color == drawing.fill
        IN  IF /\ drawing.type = "f"
               /\ RectTruthy(rect) /\ color # <<>>
               /\ Len(color) >= 3
               /\ color[1] < black_threshold
               /\ color[2] < black_threshold
               /\ color[3] < black_threshold
            THEN <<Box(page_num, rect)>>
            ELSE <<>>], Len(drawings))

\* detect_black_rectangles, lines 25-41: the boxes of one page's drawings
FilledDarkBoxes(drawings, page_num, black_threshold) ==
    FlatMap([k \in 1..Len(drawings) |->
        LET drawing == drawings[k]
            rect == drawing.rect
            color == drawing.fill
        IN  IF /\ drawing.type = "f"
               /\ RectTruthy(rect) /\ color # <<>>
               /\ Len(color) >= 3
               /\ color[1] <= black_threshold
               /\ color[2] <= black_threshold
               /\ color[3] <= black_threshold
            THEN <<Box(page_num, rect)>>
            ELSE <<>>], Len(drawings))

\* detect_black_rectangles, lines 44-52: the boxes of one page's image blocks
ImageBoxes(blocks, page_num) ==
    FlatMap([k \in 1..Len(blocks) |->
        \* bbox is a 4-tuple, which is always true
        IF blocks[k].type = 1
        THEN <<Box(page_num, blocks[k].bbox)>>
        ELSE <<>>], Len(blocks))

RECURSIVE DetectPages(_, _, _)
\* The page loop of detect_black_rectangles from page i on: an exception on a
\* page leaves the loop, keeping what was appended before it.
DetectPages(d, i, black_threshold) ==
    IF i > Len(d.pages) THEN [boxes |-> <<>>, failed |-> FALSE]
    ELSE IF FitzFails(d, i, "drawings") THEN [boxes |-> <<>>, failed |-> TRUE]
    ELSE LET own == FilledDarkBoxes(d.pages[i].drawings, i - 1, black_threshold)
         IN  IF FitzFails(d, i, "blocks") THEN [boxes |-> own, failed |-> TRUE]
             ELSE LET rest == DetectPages(d, i + 1, black_threshold)
                  IN  [boxes |-> own \o ImageBoxes(d.pages[i].blocks, i - 1)
                                     \o rest.boxes,
                       failed |-> rest.failed]

\* detect_black_rectangles(pdf_path, black_threshold): the list returned, or
\* raised = TRUE when the handler's print raises.
detect_black_rectangles(d, black_threshold) ==
    LET r == IF FitzOpenFails(d) THEN [boxes |-> <<>>, failed |-> TRUE]
             ELSE DetectPages(d, 1, black_threshold)
    IN  IF r.failed /\ d.printRaises
        THEN [raised |-> TRUE, boxes |-> <<>>]
        ELSE [raised |-> FALSE, boxes |-> r.boxes]

\* page_boxes with the page filter left out.
page_boxes_any_page(redaction_boxes, page_num) == redaction_boxes

\* check_text_under_boxes, line 86
page_boxes(redaction_boxes, page_num) ==
    LET OnPage(box) == box.page = page_num
    IN  SelectSeq(redaction_boxes, OnPage)

\* char_hits appending once for every box the character overlaps (no break).
char_hits_no_break(char, boxes, page_num, overlap_threshold) ==
    LET char_bbox == Rect(char.x0, char.top, char.x1, char.bottom)
    IN  FlatMap([k \in 1..Len(boxes) |->
            IF rectangles_overlap(char_bbox,
                   Rect(boxes[k].x0, boxes[k].y0, boxes[k].x1, boxes[k].y1),
                   overlap_threshold)
            THEN <<[page |-> page_num, text |-> char.text, bbox |-> char_bbox]>>
            ELSE <<>>], Len(boxes))

\* check_text_under_boxes, lines 88-106: what one character appends to
\* redacted_chars: one entry at the first box of the page it overlaps (break).
char_hits(char, boxes, page_num, overlap_threshold) ==
    LET char_bbox == Rect(char.x0, char.top, char.x1, char.bottom)
    IN  IF \E k \in 1..Len(boxes) :
              rectangles_overlap(char_bbox,
                  Rect(boxes[k].x0, boxes[k].y0, boxes[k].x1, boxes[k].y1),
                  overlap_threshold)
        THEN <<[page |-> page_num, text |-> char.text, bbox |-> char_bbox]>>
        ELSE <<>>

RECURSIVE CheckPages(_, _, _, _)
\* The page loop of check_text_under_boxes from page i on.
CheckPages(d, i, redaction_boxes, overlap_threshold) ==
    IF i > Len(d.pages) THEN [chars |-> <<>>, failed |-> FALSE]
    ELSE IF PlumberFails(d, i) THEN [chars |-> <<>>, failed |-> TRUE]
    ELSE LET chars == d.pages[i].chars
             boxes == page_boxes(redaction_boxes, i - 1)
             own == FlatMap([k \in 1..Len(chars) |->
                        char_hits(chars[k], boxes, i - 1, overlap_threshold)],
                        Len(chars))
             rest == CheckPages(d, i + 1, redaction_boxes, overlap_threshold)
         IN  [chars |-> own \o rest.chars, failed |-> rest.failed]

\* check_text_under_boxes(pdf_path, redaction_boxes, overlap_threshold)
check_text_under_boxes(d, redaction_boxes, overlap_threshold) ==
    IF redaction_boxes = <<>>
    THEN [raised |-> FALSE, has_redacted_text |-> FALSE,
          redacted_text_count |-> 0, redacted_chars |-> <<>>]
    ELSE LET r == IF PlumberOpenFails(d) THEN [chars |-> <<>>, failed |-> TRUE]
                  ELSE CheckPages(d, 1, redaction_boxes, overlap_threshold)
         IN  IF r.failed /\ d.printRaises
             THEN [raised |-> TRUE, has_redacted_text |-> FALSE,
                   redacted_text_count |-> 0, redacted_chars |-> <<>>]
             ELSE [raised |-> FALSE,
                   has_redacted_text |-> Len(r.chars) > 0,
                   redacted_text_count |-> Len(r.chars),
                   redacted_chars |-> r.chars]

\* The result dict analyze_pdf_for_redactions starts from (path and filename
\* are left to the scan, which knows the file).
NewResult ==
    [has_redaction_boxes |-> FALSE, has_recoverable_text |-> FALSE,
     redaction_box_count |-> 0, redacted_char_count |-> 0,
     should_process |-> FALSE, error |-> "None"]

\* analyze_pdf_for_redactions whose should_process only asks for boxes.
analyze_pdf_for_redactions_boxes_only(d) ==
    LET det == detect_black_rectangles(d, DetectBlackThreshold)
        r1 == [NewResult EXCEPT !.has_redaction_boxes = Len(det.boxes) > 0,
                                !.redaction_box_count = Len(det.boxes)]
        tc == check_text_under_boxes(d, det.boxes, DefaultOverlapThreshold)
    IN  IF det.raised THEN [NewResult EXCEPT !.error = "Exception"]
        ELSE IF ~r1.has_redaction_boxes THEN r1
        ELSE IF tc.raised THEN [r1 EXCEPT !.error = "Exception"]
        ELSE [r1 EXCEPT !.has_recoverable_text = tc.has_redacted_text,
                        !.redacted_char_count = tc.redacted_text_count,
                        !.should_process = r1.has_redaction_boxes]

\* analyze_pdf_for_redactions(pdf_path)
analyze_pdf_for_redactions(d) ==
    LET det == detect_black_rectangles(d, DetectBlackThreshold)
        r1 == [NewResult EXCEPT !.has_redaction_boxes = Len(det.boxes) > 0,
                                !.redaction_box_count = Len(det.boxes)]
        tc == check_text_under_boxes(d, det.boxes, DefaultOverlapThreshold)
    IN  IF det.raised THEN [NewResult EXCEPT !.error = "Exception"]
        ELSE IF ~r1.has_redaction_boxes THEN r1
        ELSE IF tc.raised THEN [r1 EXCEPT !.error = "Exception"]
        ELSE [r1 EXCEPT !.has_recoverable_text = tc.has_redacted_text,
                        !.redacted_char_count = tc.redacted_text_count,
                        !.should_process =
                            r1.has_redaction_boxes /\ tc.has_redacted_text]

\* get_black_boxes, the loop over one page's drawings (no type test, no images)
DarkBoxes(drawings, page_num, black_threshold) ==
    FlatMap([k \in 1..Len(drawings) |->
        LET color == drawings[k].fill
            rect == drawings[k].rect
        IN  IF /\ color # <<>> /\ RectTruthy(rect)
               /\ Len(color) >= 3
               /\ color[1] <= black_threshold
               /\ color[2] <= black_threshold
               /\ color[3] <= black_threshold
            THEN <<Box(page_num, rect)>>
            ELSE <<>>], Len(drawings))

RECURSIVE BlackBoxPages(_, _, _)
\* The page loop of get_black_boxes from page i on; "except: pass" keeps what
\* was collected before the failing page.
BlackBoxPages(d, i, black_threshold) ==
    IF i > Len(d.pages) THEN <<>>
    ELSE IF FitzFails(d, i, "drawings") THEN <<>>
    ELSE DarkBoxes(d.pages[i].drawings, i - 1, black_threshold)
             \o BlackBoxPages(d, i + 1, black_threshold)

\* find_improper_redactions.get_black_boxes(pdf_path)
get_black_boxes(d) ==
    IF FitzOpenFails(d) THEN <<>> ELSE BlackBoxPages(d, 1, BlackBoxLiteral)

\* random_sample_test.get_black_boxes(pdf_path, black_threshold)
get_black_boxes_sample(d, black_threshold) ==
    IF FitzOpenFails(d) THEN <<>> ELSE BlackBoxPages(d, 1, black_threshold)

RECURSIVE TextPages(_, _)
\* The page loop of get_text_positions from page i on.
TextPages(d, i) ==
    IF i > Len(d.pages) THEN <<>>
    ELSE IF PlumberFails(d, i) THEN <<>>
    ELSE [k \in 1..Len(d.pages[i].chars) |->
            LET char == d.pages[i].chars[k]
            IN  [page |-> i - 1, text |-> char.text,
                 x0 |-> char.x0, y0 |-> char.top,
                 x1 |-> char.x1, y1 |-> char.bottom]]
         \o TextPages(d, i + 1)

\* get_text_positions(pdf_path), the same in find_improper_redactions and
\* random_sample_test
get_text_positions(d) ==
    IF PlumberOpenFails(d) THEN <<>> ELSE TextPages(d, 1)

\* page_chars taking the characters of every page.
page_chars_any_page(text_chars, box) == text_chars

\* test_pdf line 77 / test_pdf_quick line 125
page_chars(text_chars, box) ==
    LET OnPage(c) == c.page = box.page
    IN  SelectSeq(text_chars, OnPage)

\* test_pdf line 78: boxes_overlap(box, c) at its default threshold
box_chars(text_chars, box) ==
    LET Under(c) == boxes_overlap(box, c, BoxesOverlapThreshold)
    IN  SelectSeq(page_chars(text_chars, box), Under)

\* test_pdf_quick line 126
box_chars_sample(text_chars, box) ==
    LET Under(c) == boxes_overlap_sample(box, c, BoxesOverlapThreshold)
    IN  SelectSeq(page_chars(text_chars, box), Under)

\* recoverable_text joining the characters of a box last first.
recoverable_text_last_first(black_boxes, text_chars) ==
    FlatMap([k \in 1..Len(black_boxes) |->
        LET bc == box_chars(text_chars, black_boxes[k])
        IN  IF bc # <<>>
            THEN <<[page |-> black_boxes[k].page,
                    text |-> [j \in 1..Len(bc) |-> bc[Len(bc) + 1 - j].text],
                    char_count |-> Len(bc)]>>
            ELSE <<>>], Len(black_boxes))

\* test_pdf lines 75-85: one entry per box that has characters under it; the
\* text is the sequence of the characters' texts, in text_chars order.
recoverable_text(black_boxes, text_chars) ==
    FlatMap([k \in 1..Len(black_boxes) |->
        LET bc == box_chars(text_chars, black_boxes[k])
        IN  IF bc # <<>>
            THEN <<[page |-> black_boxes[k].page,
                    text |-> [j \in 1..Len(bc) |-> bc[j].text],
                    char_count |-> Len(bc)]>>
            ELSE <<>>], Len(black_boxes))

RECURSIVE SumSeq(_)
SumSeq(s) == IF s = <<>> THEN 0 ELSE Head(s) + SumSeq(Tail(s))

NoneResult == [returned |-> "None"]

\* find_improper_redactions.test_pdf(pdf_path)
test_pdf(d) ==
    LET black_boxes == get_black_boxes(d)
        text_chars == get_text_positions(d)
        rt == recoverable_text(black_boxes, text_chars)
    IN  IF black_boxes = <<>> THEN NoneResult
        ELSE IF text_chars = <<>> THEN NoneResult
        ELSE IF rt # <<>>
        THEN [returned |-> "dict",
              black_boxes |-> Len(black_boxes),
              recoverable_areas |-> Len(rt),
              total_chars |-> SumSeq([j \in 1..Len(rt) |-> rt[j].char_count]),
              sample_text |-> SubSeq(rt, 1, Min(5, Len(rt)))]
        ELSE NoneResult

\* random_sample_test.get_page_count: <<n>>, or <<>> for None
get_page_count(d) == IF FitzOpenFails(d) THEN <<>> ELSE <<Len(d.pages)>>

\* random_sample_test.test_pdf_quick(pdf_path); none of its callees raises.
test_pdf_quick(d) ==
    LET result == [pages |-> get_page_count(d), black_boxes |-> 0,
                   boxes_with_text |-> 0, recoverable_chars |-> 0,
                   has_improper_redactions |-> FALSE, error |-> "None"]
        black_boxes == get_black_boxes_sample(d, SampleBlackThreshold)
        r1 == [result EXCEPT !.black_boxes = Len(black_boxes)]
        text_chars == get_text_positions(d)
        overlaps == FlatMap([k \in 1..Len(black_boxes) |->
                        LET bc == box_chars_sample(text_chars, black_boxes[k])
                        IN  IF bc # <<>> THEN <<Len(bc)>> ELSE <<>>],
                        Len(black_boxes))
    IN  IF black_boxes = <<>> THEN r1
        ELSE IF text_chars = <<>> THEN r1
        ELSE [r1 EXCEPT !.boxes_with_text = Len(overlaps),
                        !.recoverable_chars = SumSeq(overlaps),
                        !.has_improper_redactions = Len(overlaps) > 0]

(***************************************************************************)
(* Inputs of the document analysis                                         *)
(***************************************************************************)

\* Pages of a generated document.
MaxPages == 2
\* Drawings plus image blocks of a generated document.
MaxBoxes == 2
\* Characters of a generated document.
MaxGlyphs == 2

Black == <<0, 0, 0>>
\* The one rectangle the generated drawings and image blocks cover.
BoxRectA == Rect(0, 0, 5, 2)
GlyphInside == Rect(1, 0, 3, 2)      \* ratio 1 with BoxRectA
GlyphPartial == Rect(3, 0, 8, 2)     \* ratio 2/5: under 0.5, over 0.3
GlyphOutside == Rect(5, 0, 7, 2)     \* touches BoxRectA along an edge
GlyphRects == {GlyphInside, GlyphPartial, GlyphOutside}

FilledBlack == [type |-> "f", fill |-> Black, rect |-> BoxRectA]
FilledStrokedBlack == [type |-> "fs", fill |-> Black, rect |-> BoxRectA]
ImageBlock == [type |-> 1, bbox |-> BoxRectA]
Letters == <<"a", "b", "c", "d", "e", "f", "g", "h">>

SeqsUpTo(S, n) == UNION { [1..k -> S] : k \in 0..n }

RECURSIVE TotalLen(_, _)
TotalLen(f, n) == IF n = 0 THEN 0 ELSE TotalLen(f, n - 1) + Len(f[n])

\* The ways to put at most max items of S, in order, on the pages 1..MaxPages.
Spread(S, max) ==
    { g : g \in { f \in [1..MaxPages -> SeqsUpTo(S, max)] :
                      TotalLen(f, MaxPages) <= max } }

\* The characters of page p: rects[p] with the texts "a", "b", ... given in
\* document order, so that a text tells the character's place in the stream.
CharsOf(rects, p) ==
    [k \in 1..Len(rects[p]) |->
        [text |-> Letters[TotalLen(rects, p - 1) + k],
         x0 |-> rects[p][k].x0, top |-> rects[p][k].y0,
         x1 |-> rects[p][k].x1, bottom |-> rects[p][k].y1]]

Faults ==
    { [kind |-> "open", page |-> 0, fitz |-> "none", plumber |-> FALSE] }
    \cup { f \in [kind : {"page"}, page : 1..MaxPages,
                  fitz : {"drawings", "blocks", "none"}, plumber : BOOLEAN] :
             f.fitz # "none" \/ f.plumber }

DrawingSpreads == Spread({FilledBlack, FilledStrokedBlack}, MaxBoxes)
PlainDrawingSpreads == Spread({FilledBlack}, MaxBoxes)
ImageSpreads == Spread({ImageBlock}, MaxBoxes)
GlyphSpreads == Spread(GlyphRects, MaxGlyphs)
PlainGlyphSpreads == Spread({GlyphInside}, MaxGlyphs)

\* The document with drawings dd[p], image blocks ii[p] and characters at
\* cc[p] on page p.
DocOf(dd, ii, cc, fault, printRaises) ==
    [pages |-> [p \in 1..MaxPages |->
                  [drawings |-> dd[p], blocks |-> ii[p],
                   chars |-> CharsOf(cc, p)]],
     fault |-> fault, printRaises |-> printRaises]

WithinMaxBoxes(dd, ii) ==
    TotalLen(dd, MaxPages) + TotalLen(ii, MaxPages) <= MaxBoxes

\* Scenario 1 of the spec: one black box (0,0,100,20) over "SECRET".
SecretText == <<"S", "E", "C", "R", "E", "T">>
SecretDoc ==
    [pages |-> << [drawings |-> << [type |-> "f", fill |-> Black,
                                    rect |-> Rect(0, 0, 100, 20)] >>,
                   blocks |-> <<>>,
                   chars |-> [k \in 1..6 |->
                       [text |-> SecretText[k],
                        x0 |-> 10 * k, top |-> 5,
                        x1 |-> 10 * k + 8, bottom |-> 15]]] >>,
     fault |-> NoFault, printRaises |-> FALSE]

\* Some document is handed to Call: a readable one with every kind of
\* drawing and glyph position, one that fails to open or has one failing
\* page, or the document of scenario 1.
WithDoc(Call(_)) ==
    \/ \E dd \in DrawingSpreads, ii \in ImageSpreads, cc \in GlyphSpreads :
          /\ WithinMaxBoxes(dd, ii)
          /\ Call(DocOf(dd, ii, cc, NoFault, FALSE))
    \/ \E dd \in PlainDrawingSpreads, ii \in ImageSpreads,
          cc \in PlainGlyphSpreads, f \in Faults, b \in BOOLEAN :
          /\ WithinMaxBoxes(dd, ii)
          /\ Call(DocOf(dd, ii, cc, f, b))
    \/ Call(SecretDoc)

NoDoc == [pages |-> <<>>, fault |-> NoFault, printRaises |-> FALSE]
NotRun == [returned |-> "not run"]

DocIdle ==
    /\ doc = NoDoc
    /\ redactionBoxes = <<>>
    /\ textCheck = NotRun
    /\ analysis = NotRun
    /\ improper = NotRun
    /\ quick = NotRun
    /\ highlighted = NotRun

\* The rectangles of the data model: x1 >= x0 and y1 >= y0, zero area allowed.
Rects ==
    { r \in [x0 : 0..MaxCoord, y0 : 0..MaxCoord,
              x1 : 0..MaxCoord, y1 : 0..MaxCoord] :
        r.x0 <= r.x1 /\ r.y0 <= r.y1 }

Thresholds ==
    { <<k, ThrDen>> : k \in 1..ThrDen }
        \cup {DefaultOverlapThreshold, BoxesOverlapThreshold}

NoRect == Rect(0, 0, 0, 0)
NoVerdict == [rectangles |-> FALSE, boxes |-> FALSE,
              sample |-> FALSE, test |-> FALSE]

GeomIdle ==
    /\ glyphRect = NoRect
    /\ boxRect = NoRect
    /\ threshold = DefaultOverlapThreshold
    /\ verdict = NoVerdict

(***************************************************************************)
(* Programs: main() of detect_and_recover_redactions.py and of             *)
(* redact_extract_optimized.py                                             *)
(***************************************************************************)

\* Files of a scanned directory; paths on the command line of the extractor.
MaxFiles == 3

DetectProg == "detect_and_recover_redactions"
ExtractProg == "redact_extract_optimized"

\* analyze_pdf_for_redactions(pdf_path) as the scan sees it: the result with
\* its 'path' (the file's position in the list stands for path and filename).
AnalyzeFile(path, d) == [path |-> path] @@ analyze_pdf_for_redactions(d)

CountIf(s, Test(_)) == Len(SelectSeq(s, Test))

\* save_analysis_report counting every file with boxes as a file to process.
save_analysis_report_boxes_to_process(rs) ==
    LET HasBoxes(r) == r.has_redaction_boxes
        HasText(r) == r.has_recoverable_text
    IN  [total_files |-> Len(rs),
         files_with_redaction_boxes |-> CountIf(rs, HasBoxes),
         files_with_recoverable_text |-> CountIf(rs, HasText),
         files_to_process |-> CountIf(rs, HasBoxes),
         files |-> rs]

\* save_analysis_report(results, output_file): the report dumped as JSON
save_analysis_report(rs) ==
    LET HasBoxes(r) == r.has_redaction_boxes
        HasText(r) == r.has_recoverable_text
        ShouldProcess(r) == r.should_process
    IN  [total_files |-> Len(rs),
         files_with_redaction_boxes |-> CountIf(rs, HasBoxes),
         files_with_recoverable_text |-> CountIf(rs, HasText),
         files_to_process |-> CountIf(rs, ShouldProcess),
         files |-> rs]

\* to_process taking every analysed file.
to_process_all(analysis_results) == analysis_results

\* process_redacted_pdfs, line 262
to_process(analysis_results) ==
    LET ShouldProcess(r) == r.should_process
    IN  SelectSeq(analysis_results, ShouldProcess)

EmptyPage == [drawings |-> <<>>, blocks |-> <<>>, chars |-> <<>>]
PagesWith(first) == [p \in 1..MaxPages |-> IF p = 1 THEN first ELSE EmptyPage]
OpenFault == [kind |-> "open", page |-> 0, fitz |-> "none", plumber |-> FALSE]
CharA == [text |-> "a", x0 |-> GlyphInside.x0, top |-> GlyphInside.y0,
          x1 |-> GlyphInside.x1, bottom |-> GlyphInside.y1]

\* A file that cannot be opened; in the second the handler's print raises too.
UnreadableDoc ==
    [pages |-> PagesWith(EmptyPage), fault |-> OpenFault, printRaises |-> FALSE]
UnreadableLoudDoc ==
    [pages |-> PagesWith(EmptyPage), fault |-> OpenFault, printRaises |-> TRUE]
\* Text and no box; a box and no text; a box over text.
NoBoxDoc ==
    [pages |-> PagesWith([EmptyPage EXCEPT !.chars = <<CharA>>]),
     fault |-> NoFault, printRaises |-> FALSE]
BoxNoTextDoc ==
    [pages |-> PagesWith([EmptyPage EXCEPT !.drawings = <<FilledBlack>>]),
     fault |-> NoFault, printRaises |-> FALSE]
RecoverableDoc ==
    [pages |-> PagesWith([EmptyPage EXCEPT !.drawings = <<FilledBlack>>,
                                           !.chars = <<CharA>>]),
     fault |-> NoFault, printRaises |-> FALSE]

ScanDocs == {UnreadableDoc, UnreadableLoudDoc, NoBoxDoc, BoxNoTextDoc,
             RecoverableDoc}

Modes == {"highlight", "side_by_side", "overlay_white"}
ExtractModes == {"side_by_side", "overlay_white"}
\* What a path of the extractor's command line is: a PDF file, a directory
\* holding two PDFs, a directory holding none, or nothing at all.
PathKinds == {"file", "dir", "emptydir", "missing"}

NoArgs == [input |-> "none"]
Running == <<>>

ProgIdle ==
    /\ prog = "none"
    /\ args = NoArgs
    /\ files = <<>>
    /\ pending = <<>>
    /\ results = <<>>
    /\ report = NotRun
    /\ toProcess = <<>>
    /\ idx = 0
    /\ renderLog = <<>>
    /\ console = {}
    /\ exitStatus = Running

DarkIdle ==
    /\ fillColor = <<>>
    /\ blackThreshold = 0
    /\ darkVerdict = NotRun

LineIdle ==
    /\ words = <<>>
    /\ lineParams = NotRun
    /\ clusters = <<>>
    /\ pageLines = <<>>
    /\ rebuilt = <<>>

RenderIdle ==
    /\ source = <<>>
    /\ running = {}
    /\ nextTask = 0
    /\ arrived = <<>>
    /\ pagesLines = <<>>
    /\ pageRects = <<>>
    /\ outPages = <<>>

\* Nothing has run yet.
Init ==
    /\ pc = "idle"
    /\ GeomIdle
    /\ DocIdle
    /\ ProgIdle
    /\ DarkIdle
    /\ LineIdle
    /\ RenderIdle

\* One call of each predicate on a glyph, a box and a threshold, each called
\* the way its matcher calls it: rectangles_overlap(char_bbox, box_rect, t) in
\* check_text_under_boxes; boxes_overlap(box, c, t) in test_pdf,
\* test_pdf_quick and test_redaction_overlap.
EvalOverlap ==
    /\ pc = "idle"
    /\ \E g \in Rects, b \in Rects, t \in Thresholds :
        /\ glyphRect' = g
        /\ boxRect' = b
        /\ threshold' = t
        /\ verdict' = [rectangles |-> rectangles_overlap(g, b, t),
                       boxes      |-> boxes_overlap(b, g, t),
                       sample     |-> boxes_overlap_sample(b, g, t),
                       test       |-> boxes_overlap_test(b, g, t)]
    /\ pc' = "overlap_done"
    /\ UNCHANGED <<docVars, progVars, otherVars>>

GeomNext == EvalOverlap

SpecGeom == Init /\ [][GeomNext]_vars

(***************************************************************************)
(* Document analysis: each analyser run on one document                    *)
(***************************************************************************)

\* The file to analyse is given: the libraries will report it as document d.
GivenDoc ==
    LET Call(d) == doc' = d
    IN  /\ pc = "idle"
        /\ WithDoc(Call)
        /\ pc' = "doc"
        /\ UNCHANGED <<redactionBoxes, textCheck, analysis, improper, quick, highlighted, geomVars, progVars, otherVars>>

\* analyze_pdf_for_redactions called on the document; redactionBoxes and textCheck
\* keep its locals redaction_boxes and text_check, as far as it got.
AnalyzePdf ==
    LET det == detect_black_rectangles(doc, DetectBlackThreshold)
    IN  /\ pc = "doc"
        /\ analysis' = analyze_pdf_for_redactions(doc)
        /\ redactionBoxes' = det.boxes
        /\ textCheck' = IF det.raised \/ det.boxes = <<>> THEN NotRun
                        ELSE check_text_under_boxes(doc, det.boxes,
                                                    DefaultOverlapThreshold)
        /\ pc' = "analyzed"
        /\ UNCHANGED <<doc, improper, quick, highlighted, geomVars, progVars, otherVars>>

\* test_pdf called on the document
TestPdf ==
    /\ pc = "doc"
    /\ improper' = test_pdf(doc)
    /\ pc' = "tested"
    /\ UNCHANGED <<doc, redactionBoxes, textCheck, analysis, quick, highlighted, geomVars, progVars, otherVars>>

\* test_pdf_quick called on the document
TestPdfQuick ==
    /\ pc = "doc"
    /\ quick' = test_pdf_quick(doc)
    /\ pc' = "quick_tested"
    /\ UNCHANGED <<doc, redactionBoxes, textCheck, analysis, improper, highlighted, geomVars, progVars, otherVars>>

\* create_highlighted_output putting every box's marker on every page.
create_highlighted_output_every_page(d, redaction_boxes) ==
    IF FitzOpenFails(d) THEN [returned |-> "error"]
    ELSE [returned |-> "saved",
          pages |-> [i \in 1..Len(d.pages) |->
              [content |-> d.pages[i],
               markers |-> [k \in 1..Len(redaction_boxes) |->
                   Rect(redaction_boxes[k].x0, redaction_boxes[k].y0,
                        redaction_boxes[k].x1, redaction_boxes[k].y1)]]]]

\* create_highlighted_output(pdf_path, output_path, redaction_boxes): the
\* document saved, each page with its content and the highlight annotations
\* added to it, or the exception of fitz.open
create_highlighted_output(d, redaction_boxes) ==
    IF FitzOpenFails(d) THEN [returned |-> "error"]
    ELSE [returned |-> "saved",
          pages |-> [i \in 1..Len(d.pages) |->
              LET boxes_of_page == page_boxes(redaction_boxes, i - 1)
              IN  [content |-> d.pages[i],
                   markers |-> [k \in 1..Len(boxes_of_page) |->
                       Rect(boxes_of_page[k].x0, boxes_of_page[k].y0,
                            boxes_of_page[k].x1, boxes_of_page[k].y1)]]]]

\* process_redacted_pdfs, lines 294-299 and 310-311: one file in highlight
\* mode; an exception ends in the handler of the loop.
HighlightPdf ==
    /\ pc = "doc"
    /\ LET det == detect_black_rectangles(doc, DetectBlackThreshold)
       IN  /\ redactionBoxes' = det.boxes
           /\ highlighted' = IF det.raised THEN [returned |-> "error"]
                             ELSE create_highlighted_output(doc, det.boxes)
    /\ pc' = "highlighted"
    /\ UNCHANGED <<doc, textCheck, analysis, improper, quick, geomVars,
                   progVars, otherVars>>

DocNext == GivenDoc \/ AnalyzePdf \/ TestPdf \/ TestPdfQuick \/ HighlightPdf

Spec == Init /\ [][DocNext]_vars

(***************************************************************************)
(* detect_and_recover_redactions.main()                                    *)
(***************************************************************************)

\* main() from its start to line 366: the arguments are parsed and the input
\* is a file (analysed at once), a directory (its PDFs go to the pool) or
\* neither.
DetectMain ==
    /\ pc = "idle"
    /\ prog' = DetectProg
    /\ \E input \in {"file", "dir", "missing"}, scan_only \in BOOLEAN,
          rep \in BOOLEAN, mode \in Modes,
          fs \in SeqsUpTo(ScanDocs, MaxFiles) :
        /\ input = "file" => Len(fs) = 1
        /\ input = "missing" => fs = <<>>
        /\ args' = [input |-> input, scan_only |-> scan_only,
                    report |-> rep, mode |-> mode]
        /\ files' = fs
        /\ CASE input = "file" ->
                  /\ results' = <<AnalyzeFile(1, fs[1])>>
                  /\ pc' = "summary"
                  /\ UNCHANGED <<console, exitStatus>>
             [] input = "dir" /\ fs = <<>> ->
                  /\ results' = <<>>
                  /\ console' = console \cup {"No PDF files found"}
                  /\ pc' = "summary"
                  /\ UNCHANGED exitStatus
             [] input = "dir" /\ fs # <<>> ->
                  /\ pc' = "pool"
                  /\ UNCHANGED <<results, console, exitStatus>>
             [] input = "missing" ->
                  /\ console' = console \cup {"Input not found"}
                  /\ pc' = "exited"
                  /\ exitStatus' = <<0>>
                  /\ UNCHANGED results
    /\ UNCHANGED <<pending, report, toProcess, idx, renderLog, geomVars, docVars,
                   otherVars>>

\* scan_directory_for_redactions, lines 216-222: a worker of the pool finishes
\* analysing file i, in any order.
PoolTask ==
    /\ pc = "pool"
    /\ \E i \in 1..Len(files) :
        /\ i \notin DOMAIN pending
        /\ pending' = pending @@ (i :> AnalyzeFile(i, files[i]))
    /\ UNCHANGED <<pc, prog, args, files, results, report, toProcess, idx,
                   renderLog, console, exitStatus, geomVars, docVars,
                   otherVars>>

\* The results handed back last file first.
PoolJoinLastFirst ==
    /\ pc = "pool"
    /\ DOMAIN pending = 1..Len(files)
    /\ results' = [i \in 1..Len(files) |-> pending[Len(files) + 1 - i]]
    /\ pc' = "summary"
    /\ UNCHANGED <<prog, args, files, pending, report, toProcess, idx,
                   renderLog, console, exitStatus, geomVars, docVars,
                   otherVars>>

\* pool.imap hands the results back in the order of pdf_files.
PoolJoin ==
    /\ pc = "pool"
    /\ DOMAIN pending = 1..Len(files)
    /\ results' = [i \in 1..Len(files) |-> pending[i]]
    /\ pc' = "summary"
    /\ UNCHANGED <<prog, args, files, pending, report, toProcess, idx,
                   renderLog, console, exitStatus, geomVars, docVars,
                   otherVars>>

\* main(), lines 368-388: the summary is printed and, with --report, the
\* report is written; an output file that cannot be written ends the process
\* with a traceback.
Summary ==
    /\ pc = "summary"
    /\ IF args.report
       THEN \E written \in BOOLEAN :
              IF written
              THEN /\ report' = save_analysis_report(results)
                   /\ pc' = "process"
                   /\ UNCHANGED exitStatus
              ELSE /\ pc' = "exited"
                   /\ exitStatus' = <<1>>
                   /\ UNCHANGED report
       ELSE /\ pc' = "process"
            /\ UNCHANGED <<report, exitStatus>>
    /\ UNCHANGED <<prog, args, files, pending, results, toProcess, idx,
                   renderLog, console, geomVars, docVars,
                   otherVars>>

\* main(), lines 390-397, into process_redacted_pdfs up to its loop.
ProcessStart ==
    /\ pc = "process"
    /\ IF args.scan_only
       THEN /\ pc' = "exited"
            /\ exitStatus' = <<0>>
            /\ UNCHANGED <<toProcess, idx, console>>
       ELSE IF to_process(results) = <<>>
       THEN /\ console' = console \cup {"No PDFs found with recoverable redacted text"}
            /\ pc' = "exited"
            /\ exitStatus' = <<0>>
            /\ UNCHANGED <<toProcess, idx>>
       ELSE /\ toProcess' = to_process(results)
            /\ idx' = 1
            /\ pc' = "render"
            /\ UNCHANGED <<console, exitStatus>>
    /\ UNCHANGED <<prog, args, files, pending, results, report, renderLog,
                   geomVars, docVars,
                   otherVars>>

\* RenderFile leaving the loop at the first failure.
RenderFileAbortsOnError ==
    /\ pc = "render"
    /\ idx <= Len(toProcess)
    /\ \E ok \in BOOLEAN :
        /\ renderLog' = Append(renderLog,
              [file |-> toProcess[idx].path,
               outcome |-> IF ok THEN "created" ELSE "error"])
        /\ IF ok THEN idx' = idx + 1 /\ UNCHANGED <<pc, exitStatus>>
           ELSE pc' = "exited" /\ exitStatus' = <<1>> /\ UNCHANGED idx
    /\ UNCHANGED <<prog, args, files, pending, results, report, toProcess,
                   console, geomVars, docVars,
                   otherVars>>

\* process_redacted_pdfs, lines 279-311: one pass of the loop.  The output is
\* created or the renderer raises, which is caught and printed.
RenderFile ==
    /\ pc = "render"
    /\ idx <= Len(toProcess)
    /\ \E ok \in BOOLEAN :
        renderLog' = Append(renderLog,
            [file |-> toProcess[idx].path,
             outcome |-> IF ok THEN "created" ELSE "error"])
    /\ idx' = idx + 1
    /\ UNCHANGED <<pc, prog, args, files, pending, results, report, toProcess,
                   console, exitStatus, geomVars, docVars,
                   otherVars>>

\* The loop is over; main() prints the total time and returns.
ProcessEnd ==
    /\ pc = "render"
    /\ idx > Len(toProcess)
    /\ pc' = "exited"
    /\ exitStatus' = <<0>>
    /\ UNCHANGED <<prog, args, files, pending, results, report, toProcess, idx,
                   renderLog, console, geomVars, docVars,
                   otherVars>>

(***************************************************************************)
(* redact_extract_optimized.main()                                         *)
(***************************************************************************)

\* The files path k of the command line contributes to input_files.
InputFilesOf(kind, k) ==
    CASE kind = "file" -> << <<k, 0>> >>
      [] kind = "dir" -> << <<k, 1>>, <<k, 2>> >>
      [] OTHER -> <<>>

\* main(), lines 350-399: the paths are validated and the work is chosen.
ExtractMain ==
    /\ pc = "idle"
    /\ prog' = ExtractProg
    /\ \E paths \in SeqsUpTo(PathKinds, MaxFiles), batch \in BOOLEAN,
          mode \in ExtractModes :
        LET input_files == FlatMap([k \in 1..Len(paths) |->
                               InputFilesOf(paths[k], k)], Len(paths))
            missing == \E k \in 1..Len(paths) : paths[k] = "missing"
        IN  /\ paths # <<>>
            /\ args' = [input |-> paths, batch |-> batch, mode |-> mode]
            /\ files' = input_files
            /\ IF input_files = <<>>
               THEN /\ console' = console
                         \cup (IF missing THEN {"Not found"} ELSE {})
                         \cup {"No valid PDF files found"}
                    /\ pc' = "exited"
                    /\ exitStatus' = <<0>>
                    /\ UNCHANGED idx
               ELSE /\ console' = console
                         \cup (IF missing THEN {"Not found"} ELSE {})
                    /\ IF Len(input_files) > 1 \/ batch
                       THEN pc' = "batch" /\ idx' = 1
                       ELSE pc' = "single" /\ UNCHANGED idx
                    /\ UNCHANGED exitStatus
    /\ UNCHANGED <<pending, results, report, toProcess, renderLog,
                   geomVars, docVars,
                   otherVars>>

\* batch_process, lines 292-322: one pass of the loop.  A file that is gone
\* is reported and skipped; otherwise the output is created or the renderer
\* raises, which is caught and printed.
BatchStep ==
    /\ pc = "batch"
    /\ idx <= Len(files)
    /\ \E exists \in BOOLEAN, ok \in BOOLEAN :
        renderLog' = Append(renderLog,
            [file |-> files[idx],
             outcome |-> IF ~exists THEN "not found"
                         ELSE IF ok THEN "created" ELSE "error"])
    /\ idx' = idx + 1
    /\ UNCHANGED <<pc, prog, args, files, pending, results, report, toProcess,
                   console, exitStatus, geomVars, docVars,
                   otherVars>>

\* batch_process, lines 324-326, and the return of main(); input_files is not
\* empty here, so the average is defined.
BatchEnd ==
    /\ pc = "batch"
    /\ idx > Len(files)
    /\ pc' = "exited"
    /\ exitStatus' = <<0>>
    /\ UNCHANGED <<prog, args, files, pending, results, report, toProcess, idx,
                   renderLog, console, geomVars, docVars,
                   otherVars>>

\* main(), lines 377-397: the single file is rendered outside any try, so a
\* renderer that raises ends the process with a traceback.
SingleFile ==
    /\ pc = "single"
    /\ \E ok \in BOOLEAN :
        /\ renderLog' = Append(renderLog,
              [file |-> files[1],
               outcome |-> IF ok THEN "created" ELSE "error"])
        /\ exitStatus' = IF ok THEN <<0>> ELSE <<1>>
    /\ pc' = "exited"
    /\ UNCHANGED <<prog, args, files, pending, results, report, toProcess, idx,
                   console, geomVars, docVars,
                   otherVars>>

ProgNext ==
    \/ DetectMain \/ PoolTask \/ PoolJoin \/ Summary \/ ProcessStart
    \/ RenderFile \/ ProcessEnd
    \/ ExtractMain \/ BatchStep \/ BatchEnd \/ SingleFile

SpecProg == Init /\ [][ProgNext]_vars

(***************************************************************************)
(* Line reconstruction: redact_extract_optimized.py                        *)
(*                                                                         *)
(* A word is what pdfplumber's extract_words reports: text (a sequence of  *)
(* characters), x0, x1, top, bottom and size (<<s>>, or <<>> when the      *)
(* attribute is missing).  Lengths are integers counting 1/UnitsPerPt      *)
(* point.  The running average of group_words_into_lines is kept as an     *)
(* exact fraction <<num, den>>, and a built text is a sequence of          *)
(* characters.                                                             *)
(***************************************************************************)

UnitsPerPt == 4
\* the literals 0.5 (line 90), 6.0 (line 70) and 10.0 (line 72), in units
HalfPoint == UnitsPerPt \div 2
MinHeight == 6 * UnitsPerPt
DefaultFontSize == 10 * UnitsPerPt

Abs(a) == IF a < 0 THEN -a ELSE a

\* The element of a one-element set; { F(v) : v \in {e} } computes e once.
Only(S) == CHOOSE r \in S : TRUE

\* Sort keys are pairs, compared as Python compares tuples.
KeyLess(a, b) == a[1] < b[1] \/ (a[1] = b[1] /\ a[2] < b[2])

\* Where a stable sort puts element k: behind every element with a smaller
\* key and every earlier element with an equal key.
SortedPosition(keys, k) ==
    1 + Cardinality({ i \in DOMAIN keys :
                        \/ KeyLess(keys[i], keys[k])
                        \/ (keys[i] = keys[k] /\ i < k) })

\* sorted(s, key=...), keys[k] being the key of s[k]: Python's sort is stable
sorted(s, keys) ==
    Only({ [j \in 1..Len(sv) |->
               sv[CHOOSE k \in 1..Len(sv) : SortedPosition(kv, k) = j]] :
           sv \in {s}, kv \in {keys} })

\* the key (top, x0) of line 16, the key x0 of line 49, and plain numbers
ByTopThenX0(ws) == [k \in 1..Len(ws) |-> <<ws[k].top, ws[k].x0>>]
ByX0(ws) == [k \in 1..Len(ws) |-> <<ws[k].x0, 0>>]
Ascending(ns) == [k \in 1..Len(ns) |-> <<ns[k], 0>>]
sorted_numbers(ns) == sorted(ns, Ascending(ns))

\* line 29 comparing with the top of the cluster's first word.
near_current_top_first_word(top, current, current_top, line_tol) ==
    Abs(top - current[1].top) <= line_tol

\* line 29: abs(top - current_top) <= line_tol, current_top = num / den
near_current_top(top, current, current_top, line_tol) ==
    Abs(top * current_top[2] - current_top[1]) <= line_tol * current_top[2]

\* line 32: (current_top * (len(current) - 1) + top) / len(current), where
\* current already holds the new word
running_average(current_top, n, top) ==
    <<current_top[1] * (n - 1) + top * current_top[2], current_top[2] * n>>

RECURSIVE GroupLoop(_, _, _, _, _, _)
\* The loop of group_words_into_lines from word i of the sorted list on.
GroupLoop(ws, i, lines, current, current_top, line_tol) ==
    IF i > Len(ws)
    THEN IF current # <<>> THEN Append(lines, current) ELSE lines
    ELSE LET w == ws[i]
         IN  IF current = <<>>
             THEN GroupLoop(ws, i + 1, lines, <<w>>, <<w.top, 1>>, line_tol)
             ELSE IF near_current_top(w.top, current, current_top, line_tol)
             THEN GroupLoop(ws, i + 1, lines, Append(current, w),
                      running_average(current_top, Len(current) + 1, w.top),
                      line_tol)
             ELSE GroupLoop(ws, i + 1, Append(lines, current), <<w>>,
                            <<w.top, 1>>, line_tol)

\* group_words_into_lines without the sort of line 16.
group_words_into_lines_unsorted(ws, line_tol) ==
    IF ws = <<>> THEN <<>>
    ELSE GroupLoop(ws, 1, <<>>, <<>>, <<0, 1>>, line_tol)

\* group_words_into_lines(words, line_tol)
group_words_into_lines(ws, line_tol) ==
    IF ws = <<>> THEN <<>>
    ELSE Only({ GroupLoop(sw, 1, <<>>, <<>>, <<0, 1>>, line_tol) :
                  sw \in {sorted(ws, ByTopThenX0(ws))} })

\* round(p / q) for p >= 0 and q > 0: Python rounds halves to even
Round(p, q) ==
    LET f == p \div q
        r2 == 2 * (p % q)
    IN  IF r2 < q THEN f
        ELSE IF r2 > q THEN f + 1
        ELSE IF f % 2 = 0 THEN f ELSE f + 1

Spaces(n) == [i \in 1..n |-> " "]

\* n_spaces without the floor of space_unit_pts at 0.5.
n_spaces_no_floor(gap, space_unit_pts, min_spaces) ==
    Max(min_spaces, Round(gap, space_unit_pts))

\* lines 90-91
n_spaces(gap, space_unit_pts, min_spaces) ==
    Max(min_spaces, Round(gap, Max(HalfPoint, space_unit_pts)))

\* The separator with min_spaces applied to a shallow overlap as well.
separator_floored_everywhere(gap, space_unit_pts, min_spaces) ==
    IF gap > 0 THEN Spaces(n_spaces(gap, space_unit_pts, min_spaces))
    ELSE IF 10 * gap > -3 * space_unit_pts THEN Spaces(Max(1, min_spaces))
    ELSE <<>>

\* lines 87-95: what is put between the previous word and the next
separator(gap, space_unit_pts, min_spaces) ==
    IF gap > 0 THEN Spaces(n_spaces(gap, space_unit_pts, min_spaces))
    ELSE IF 10 * gap > -3 * space_unit_pts THEN Spaces(1) ELSE <<>>

\* lines 61-72: the median of the sizes, else of the heights, else 10.0
median_size(sizes, hs) ==
    IF sizes # <<>> THEN sizes[Len(sizes) \div 2 + 1]
    ELSE IF hs # <<>> THEN hs[Len(hs) \div 2 + 1]
    ELSE DefaultFontSize

\* lines 52-72: the line's font size
font_size_of(line_words) ==
    LET HasSize(w) == w.size # <<>>
        sized == SelectSeq(line_words, HasSize)
    IN  Only({ median_size(sizes, hs) :
               sizes \in {sorted_numbers([k \in 1..Len(sized) |->
                                             sized[k].size[1]])},
               hs \in {sorted_numbers([k \in 1..Len(line_words) |->
                          Max(MinHeight,
                              line_words[k].bottom - line_words[k].top)])} })

RECURSIVE PartsLoop(_, _, _, _, _, _)
\* The loop of lines 82-99 from word i on: the text so far and last_x1.
PartsLoop(ws, i, text, prev_x1, space_unit_pts, min_spaces) ==
    IF i > Len(ws) THEN [text |-> text, x1 |-> prev_x1]
    ELSE PartsLoop(ws, i + 1,
             text \o separator(ws[i].x0 - prev_x1, space_unit_pts, min_spaces)
                  \o ws[i].text,
             Max(prev_x1, ws[i].x1), space_unit_pts, min_spaces)

\* build_line_text from line 51 on, ws being the words sorted by x0
build_sorted_line(ws, space_unit_pts, min_spaces) ==
    LET tops == sorted_numbers([k \in 1..Len(ws) |-> ws[k].top])
        r == PartsLoop(ws, 2, ws[1].text, ws[1].x1, space_unit_pts, min_spaces)
    IN  [text |-> r.text, x0 |-> ws[1].x0, x1 |-> r.x1,
         top |-> tops[Len(ws) \div 2 + 1],
         font_size |-> font_size_of(ws)]

\* build_line_text(line_words, space_unit_pts, min_spaces), for a cluster of
\* at least one word (group_words_into_lines makes no empty cluster)
build_line_text(line_words, space_unit_pts, min_spaces) ==
    Only({ build_sorted_line(ws, space_unit_pts, min_spaces) :
             ws \in {sorted(line_words, ByX0(line_words))} })

\* str.strip() leaves something
strip_nonempty(text) == \E k \in 1..Len(text) : text[k] # " "

\* The tuple appended to out for a built line
OutLine(b) ==
    [text |-> b.text, x0 |-> b.x0, top |-> b.top, font_size |-> b.font_size]

\* lines 127-133 appending every line.
out_lines_unfiltered(lines, space_unit_pts, min_spaces) ==
    [k \in 1..Len(lines) |->
        OutLine(build_line_text(lines[k], space_unit_pts, min_spaces))]

\* process_single_page, lines 127-133: the list out for the clusters
out_lines(lines, space_unit_pts, min_spaces) ==
    LET built == [k \in 1..Len(lines) |->
                    build_line_text(lines[k], space_unit_pts, min_spaces)]
        Kept(b) == strip_nonempty(b.text)
        kept == SelectSeq(built, Kept)
    IN  [k \in 1..Len(kept) |-> OutLine(kept[k])]

\* process_single_page, lines 125-133: the list out for the words of a page
page_lines(ws, line_tol, space_unit_pts, min_spaces) ==
    Only({ out_lines(lines, space_unit_pts, min_spaces) :
             lines \in {group_words_into_lines(ws, line_tol)} })

\* Words on a page handed to the line reconstruction.
MaxWords == 3

WordX0s == {0, 3, 5, 10}
WordTops == {0, 2, 4}
\* A word of a letter, 4 wide, with a font size; or a word of no text,
\* 6 wide, without one, on the first line at either margin.
WordKinds == {"letter", "blank"}
WordShapes ==
    { s \in [x0 : WordX0s, top : WordTops, kind : WordKinds] :
        s.kind = "blank" => (s.x0 \in {0, 10} /\ s.top = 0) }

\* The word of shape s at position k of the list extract_words returned.
WordOf(s, k) ==
    [text |-> IF s.kind = "letter" THEN <<Letters[k]>> ELSE <<>>,
     x0 |-> s.x0,
     x1 |-> s.x0 + (IF s.kind = "letter" THEN 4 ELSE 5),
     top |-> s.top, bottom |-> s.top + 5 * UnitsPerPt,
     size |-> IF s.kind = "letter" THEN <<12 * UnitsPerPt>> ELSE <<>>]

WordsOf(shapes) == [k \in 1..Len(shapes) |-> WordOf(shapes[k], k)]

\* The lists of shapes handed over: in reading order by columns, or in the
\* reverse of it, so that the sorts have work to do and ties to keep.
ShapeRank(s) ==
    100 * s.x0 + 10 * s.top + (IF s.kind = "letter" THEN 0 ELSE 1)
ShapeLists ==
    { g : g \in { s \in SeqsUpTo(WordShapes, MaxWords) :
            \/ \A k \in 1..Len(s) - 1 : ShapeRank(s[k]) <= ShapeRank(s[k + 1])
            \/ \A k \in 1..Len(s) - 1 : ShapeRank(s[k]) >= ShapeRank(s[k + 1]) } }

\* line_tol, space_unit_pts (one below half a point) and min_spaces; and a
\* line_tol of 0 with a space_unit_pts of one point and min_spaces = 1
LineParams ==
    [line_tol : {3}, space_unit_pts : {1, UnitsPerPt}, min_spaces : 0..2]
        \cup [line_tol : {0}, space_unit_pts : {UnitsPerPt}, min_spaces : {1}]

\* Scenario 3 of the spec: "Hello" and "World" on nearly the same line, with
\* line_tol = 2.0, space_unit_pts = 5.0 and min_spaces = 1.
HelloWorldWords ==
    << [text |-> <<"H", "e", "l", "l", "o">>,
        x0 |-> 0, x1 |-> 30 * UnitsPerPt,
        top |-> 100 * UnitsPerPt, bottom |-> 110 * UnitsPerPt, size |-> <<>>],
       [text |-> <<"W", "o", "r", "l", "d">>,
        x0 |-> 40 * UnitsPerPt, x1 |-> 70 * UnitsPerPt,
        top |-> 100 * UnitsPerPt + HalfPoint,
        bottom |-> 110 * UnitsPerPt + HalfPoint, size |-> <<>>] >>
HelloWorldParams ==
    [line_tol |-> 2 * UnitsPerPt, space_unit_pts |-> 5 * UnitsPerPt,
     min_spaces |-> 1]

RECURSIVE SplitLoop(_, _, _, _, _)
\* text[i..] cut at its runs of spaces: the words, each with the number of
\* spaces in front of it.  run and word are the run and the word being read.
SplitLoop(text, i, done, run, word) ==
    IF i > Len(text)
    THEN IF word # <<>> THEN Append(done, [spaces |-> run, text |-> word])
         ELSE done
    ELSE IF text[i] = " "
    THEN IF word # <<>>
         THEN SplitLoop(text, i + 1,
                  Append(done, [spaces |-> run, text |-> word]), 1, <<>>)
         ELSE SplitLoop(text, i + 1, done, run + 1, <<>>)
    ELSE SplitLoop(text, i + 1, done, run, Append(word, text[i]))

SplitAtSpaces(text) == SplitLoop(text, 1, <<>>, 0, <<>>)

RECURSIVE PlaceLoop(_, _, _, _, _)
\* The pieces from piece i on as words of one line, each starting
\* spaces * space_unit_pts behind the end of the one before it.
PlaceLoop(pieces, i, prev_x1, top, space_unit_pts) ==
    IF i > Len(pieces) THEN <<>>
    ELSE LET x0 == prev_x1 + pieces[i].spaces * space_unit_pts
             x1 == x0 + Len(pieces[i].text) * UnitsPerPt
         IN  << [text |-> pieces[i].text, x0 |-> x0, x1 |-> x1,
                 top |-> top, bottom |-> top + 5 * UnitsPerPt,
                 size |-> <<>>] >>
             \o PlaceLoop(pieces, i + 1, x1, top, space_unit_pts)

\* The words of a built line, placed again from its text.
PlacedAgain(line, space_unit_pts) ==
    PlaceLoop(SplitAtSpaces(line.text), 1, 0, line.top, space_unit_pts)

\* The text build_line_text gives for the words of a built line placed again.
BuiltAgain(line, space_unit_pts, min_spaces) ==
    Only({ IF placed = <<>> THEN <<>>
           ELSE build_line_text(placed, space_unit_pts, min_spaces).text :
           placed \in {PlacedAgain(line, space_unit_pts)} })

\* extract_words has returned the words of a page.
GivenWords ==
    /\ pc = "idle"
    /\ \/ \E shapes \in ShapeLists, p \in LineParams :
            /\ words' = WordsOf(shapes)
            /\ lineParams' = p
       \/ /\ words' = HelloWorldWords
          /\ lineParams' = HelloWorldParams
    /\ pc' = "words"
    /\ UNCHANGED <<clusters, pageLines, rebuilt, geomVars, docVars, progVars,
                   darkVars, renderVars>>

\* process_single_page, lines 125-133, keeping what it computes on the way:
\* the clusters and, for each cluster, the line build_line_text returns and
\* the line it returns for that line's words placed again.
ReconstructLines ==
    /\ pc = "words"
    /\ clusters' = group_words_into_lines(words, lineParams.line_tol)
    /\ pageLines' = page_lines(words, lineParams.line_tol,
                        lineParams.space_unit_pts, lineParams.min_spaces)
    /\ rebuilt' =
          [k \in 1..Len(clusters') |->
              Only({ [built |-> b,
                      again |-> BuiltAgain(b, lineParams.space_unit_pts,
                                           lineParams.min_spaces)] :
                     b \in {build_line_text(clusters'[k],
                                lineParams.space_unit_pts,
                                lineParams.min_spaces)} })]
    /\ pc' = "lines_done"
    /\ UNCHANGED <<words, lineParams, geomVars, docVars, progVars, darkVars,
                   renderVars>>

LineNext == GivenWords \/ ReconstructLines

SpecLines == Init /\ [][LineNext]_vars

(***************************************************************************)
(* Parallel line extraction and rendering (redact_extract_optimized.py)    *)
(***************************************************************************)

\* Defaults of make_side_by_side_optimized and make_overlay_white_optimized:
\* line_tol=2.0, space_unit_pts=3.0, min_spaces=1
DefaultLineTol == 2 * UnitsPerPt
DefaultSpaceUnit == 3 * UnitsPerPt
DefaultMinSpaces == 1

\* Most pages of a source document and most worker processes of the pool.
MaxSourcePages == 3
MaxWorkers == 3

\* A word of a source page: one letter, 4 points wide and 10 points high.
PageWord(letter, x0, top) ==
    [text |-> <<letter>>, x0 |-> x0, x1 |-> x0 + 4 * UnitsPerPt,
     top |-> top, bottom |-> top + 10 * UnitsPerPt,
     size |-> <<12 * UnitsPerPt>>]

\* The pages a source document is made of: their size and their words.
SourcePages ==
    { [width |-> 100 * UnitsPerPt, height |-> 200 * UnitsPerPt,
       words |-> << PageWord("a", 8 * UnitsPerPt, 40 * UnitsPerPt) >>],
      [width |-> 120 * UnitsPerPt, height |-> 150 * UnitsPerPt,
       words |-> << PageWord("b", 0, 0),
                    PageWord("c", 10 * UnitsPerPt, UnitsPerPt),
                    PageWord("d", 0, 20 * UnitsPerPt) >>],
      [width |-> 100 * UnitsPerPt, height |-> 200 * UnitsPerPt,
       words |-> << >>] }

RenderModes == {"side_by_side", "overlay"}

Sources ==
    { [pages |-> ps, workers |-> n, mode |-> m] :
        ps \in UNION { [1..len -> SourcePages] : len \in 0..MaxSourcePages },
        n \in 1..MaxWorkers, m \in RenderModes }

\* process_single_page(args) for args_list[page_num]: the tuple
\* (page_num, out, page_rect)
process_single_page(src, page_num) ==
    LET page == src.pages[page_num + 1]
    IN  [page_num |-> page_num,
         lines |-> page_lines(page.words, DefaultLineTol, DefaultSpaceUnit,
                              DefaultMinSpaces),
         rect |-> [width |-> page.width, height |-> page.height]]

\* pool.imap, lines 160-166: the results of the tasks in the order of
\* args_list, whatever the order the workers finished them in.  A task that
\* has not finished has no result yet.
imap_results(finished) ==
    LET done == { finished[k].page_num : k \in 1..Len(finished) }
        ResultOf(t) == Only({ finished[k] : k \in { j \in 1..Len(finished) :
                                                     finished[j].page_num = t } })
        Yielded[t \in Nat] ==
            IF t \notin done THEN << >>
            ELSE <<ResultOf(t)>> \o Yielded[t + 1]
    IN  Yielded[0]

\* lines 157-158 and 169-171: the two lists, every entry None until the
\* result of its page_num is stored in it
reassembled(num_pages, imap_list) ==
    [i \in 1..num_pages |->
        LET mine == { k \in 1..Len(imap_list) : imap_list[k].page_num = i - 1 }
        IN  IF mine = {} THEN [value |-> "None"]
            ELSE LET last == CHOOSE k \in mine : \A j \in mine : j <= k
                 IN  [value |-> "set", lines |-> imap_list[last].lines,
                      rect |-> imap_list[last].rect]]

\* The lists filled by position in the order the results were finished.
extracted_by_arrival(num_pages, finished) ==
    [i \in 1..num_pages |->
        IF i > Len(finished) THEN [value |-> "None"]
        ELSE [value |-> "set", lines |-> finished[i].lines,
              rect |-> finished[i].rect]]

\* extract_lines_parallel, lines 160-173: pages_lines and page_rects (one
\* record per index: the entry of each list) from the finished tasks
extracted(num_pages, finished) ==
    reassembled(num_pages, imap_results(finished))

\* lines 209-221 and 264-274: the texts inserted for the lines of a page,
\* the height of the point in hundredths of a unit
inserted_texts(page_lines_i, x_off, color) ==
    [k \in 1..Len(page_lines_i) |->
        [txt |-> page_lines_i[k].text,
         x |-> x_off + page_lines_i[k].x0,
         y |-> 100 * page_lines_i[k].top + 85 * page_lines_i[k].font_size,
         fontsize |-> page_lines_i[k].font_size,
         color |-> color]]

\* lines 206-207: page_lines = lines_per_page[i] if i < len(lines_per_page)
\* else []
lines_of_page(lines_per_page, i) ==
    IF i < Len(lines_per_page) THEN lines_per_page[i + 1].lines ELSE << >>

\* The page of the side-by-side output with the texts at the x0 of the line.
side_by_side_page_no_offset(src, lines_per_page, i) ==
    LET w == src.pages[i + 1].width
        h == src.pages[i + 1].height
    IN  [index |-> i, width |-> 2 * w, height |-> h,
         shown |-> [page |-> i, x0 |-> 0, y0 |-> 0, x1 |-> w, y1 |-> h],
         texts |-> inserted_texts(lines_of_page(lines_per_page, i), 0,
                                  "black")]

\* make_side_by_side_optimized, lines 197-221: the page added to out for
\* page i of src
side_by_side_page(src, lines_per_page, i) ==
    LET w == src.pages[i + 1].width
        h == src.pages[i + 1].height
    IN  [index |-> i, width |-> 2 * w, height |-> h,
         shown |-> [page |-> i, x0 |-> 0, y0 |-> 0, x1 |-> w, y1 |-> h],
         texts |-> inserted_texts(lines_of_page(lines_per_page, i), w,
                                  "black")]

\* make_overlay_white_optimized, lines 263-274: page i of doc after its
\* texts were inserted
overlay_page(src, lines_per_page, i) ==
    LET w == src.pages[i + 1].width
        h == src.pages[i + 1].height
    IN  [index |-> i, width |-> w, height |-> h,
         shown |-> [page |-> i, x0 |-> 0, y0 |-> 0, x1 |-> w, y1 |-> h],
         texts |-> inserted_texts(lines_of_page(lines_per_page, i), 0,
                                  "white")]

\* main or batch_process hands a document, a mode and a worker count over.
GivenSource ==
    /\ pc = "idle"
    /\ \E s \in Sources : source' = s
    /\ pc' = "source"
    /\ UNCHANGED <<running, nextTask, arrived, pagesLines, pageRects,
                   outPages, geomVars, docVars, progVars, darkVars, lineVars>>

\* extract_lines_parallel, lines 147-160: the lists are allocated and the
\* pool is started.
StartExtract ==
    /\ pc = "source"
    /\ pagesLines' = [i \in 1..Len(source.pages) |-> [value |-> "None"]]
    /\ pageRects' = [i \in 1..Len(source.pages) |-> [value |-> "None"]]
    /\ pc' = "extracting"
    /\ UNCHANGED <<source, running, nextTask, arrived, outPages, geomVars,
                   docVars, progVars, darkVars, lineVars>>

\* A free worker of the pool takes the next task of args_list.
WorkerTake ==
    /\ pc = "extracting"
    /\ nextTask < Len(source.pages)
    /\ Cardinality(running) < source.workers
    /\ running' = running \cup {nextTask}
    /\ nextTask' = nextTask + 1
    /\ UNCHANGED <<pc, source, arrived, pagesLines, pageRects, outPages,
                   geomVars, docVars, progVars, darkVars, lineVars>>

\* A worker returns from process_single_page.
WorkerFinish ==
    /\ pc = "extracting"
    /\ \E t \in running :
          /\ running' = running \ {t}
          /\ arrived' = Append(arrived, process_single_page(source, t))
    /\ UNCHANGED <<pc, source, nextTask, pagesLines, pageRects, outPages,
                   geomVars, docVars, progVars, darkVars, lineVars>>

\* The lists stored before every task has finished.
CollectEarly ==
    /\ pc = "extracting"
    /\ Len(arrived) >= 1 \/ Len(source.pages) = 0
    /\ LET got == extracted(Len(source.pages), arrived)
       IN  /\ pagesLines' = [i \in 1..Len(got) |->
                IF got[i].value = "None" THEN got[i]
                ELSE [value |-> "set", lines |-> got[i].lines]]
           /\ pageRects' = [i \in 1..Len(got) |->
                IF got[i].value = "None" THEN got[i]
                ELSE [value |-> "set", rect |-> got[i].rect]]
    /\ pc' = "extracted"
    /\ UNCHANGED <<source, running, nextTask, arrived, outPages, geomVars,
                   docVars, progVars, darkVars, lineVars>>

\* extract_lines_parallel, lines 160-173: list(...) has consumed the result
\* of every task, the pool is closed and the two lists are returned.
Collect ==
    /\ pc = "extracting"
    /\ Len(arrived) = Len(source.pages)
    /\ LET got == extracted(Len(source.pages), arrived)
       IN  /\ pagesLines' = [i \in 1..Len(got) |->
                IF got[i].value = "None" THEN got[i]
                ELSE [value |-> "set", lines |-> got[i].lines]]
           /\ pageRects' = [i \in 1..Len(got) |->
                IF got[i].value = "None" THEN got[i]
                ELSE [value |-> "set", rect |-> got[i].rect]]
    /\ pc' = "extracted"
    /\ UNCHANGED <<source, running, nextTask, arrived, outPages, geomVars,
                   docVars, progVars, darkVars, lineVars>>

\* lines 194-195 and 257: the source is opened for rendering.
StartRender ==
    /\ pc = "extracted"
    /\ outPages' = << >>
    /\ pc' = "rendering"
    /\ UNCHANGED <<source, running, nextTask, arrived, pagesLines, pageRects,
                   geomVars, docVars, progVars, darkVars, lineVars>>

\* One round of the loop over enumerate(src), lines 197-221 and 259-274; an
\* entry that is None cannot be iterated and the function raises.
RenderPage ==
    /\ pc = "rendering"
    /\ Len(outPages) < Len(source.pages)
    /\ LET i == Len(outPages)
       IN  IF i < Len(pagesLines) /\ pagesLines[i + 1].value = "None"
           THEN /\ pc' = "render_failed"
                /\ UNCHANGED outPages
           ELSE /\ outPages' = Append(outPages,
                      IF source.mode = "side_by_side"
                      THEN side_by_side_page(source, pagesLines, i)
                      ELSE overlay_page(source, pagesLines, i))
                /\ UNCHANGED pc
    /\ UNCHANGED <<source, running, nextTask, arrived, pagesLines, pageRects,
                   geomVars, docVars, progVars, darkVars, lineVars>>

\* lines 223-225 and 276-277: the loop is over and the output is saved.
SaveOutput ==
    /\ pc = "rendering"
    /\ Len(outPages) = Len(source.pages)
    /\ pc' = "rendered"
    /\ UNCHANGED <<renderVars, geomVars, docVars, progVars, darkVars,
                   lineVars>>

RenderNext ==
    \/ GivenSource
    \/ StartExtract
    \/ WorkerTake
    \/ WorkerFinish
    \/ Collect
    \/ StartRender
    \/ RenderPage
    \/ SaveOutput

SpecRender == Init /\ [][RenderNext]_vars

(***************************************************************************)
(* The darkness test of the extractors                                     *)
(***************************************************************************)

\* test_box_text_overlap.get_black_boxes(pdf_path, black_threshold): the
\* same loop as the other two, without a try around it
get_black_boxes_test(d, black_threshold) ==
    IF FitzOpenFails(d) \/ (\E i \in 1..Len(d.pages) : FitzFails(d, i, "drawings"))
    THEN [raised |-> TRUE, boxes |-> <<>>]
    ELSE [raised |-> FALSE, boxes |-> BlackBoxPages(d, 1, black_threshold)]

\* detect_selectable_redactions.test_text_selectability, lines 41-58:
\* has_black, for a document that can be read
has_black_elements(d) ==
    \E i \in 1..Len(d.pages) :
        \E k \in 1..Len(d.pages[i].drawings) :
            LET color == d.pages[i].drawings[k].fill
            IN  /\ color # <<>> /\ Len(color) >= 3
                /\ color[1] <= BlackBoxLiteral
                /\ color[2] <= BlackBoxLiteral
                /\ color[3] <= BlackBoxLiteral

\* Channel values and thresholds, in hundredths, around the thresholds the
\* code uses (0.15 and 0.2) and at both ends of the range.
ChannelValues == {0, 15, 16, 20, 21, 100}
DarkThresholds == {0, 15, 20, 50, 99, 100}

\* A one-page document whose only drawing is a filled path of colour c.
FilledDoc(c) ==
    [pages |-> << [drawings |-> << [type |-> "f", fill |-> c,
                                    rect |-> BoxRectA] >>,
                   blocks |-> <<>>, chars |-> <<>>] >>,
     fault |-> NoFault, printRaises |-> FALSE]

\* Every extractor is run on a path filled with some colour.
EvalDark ==
    /\ pc = "idle"
    /\ \E c \in ChannelValues \X ChannelValues \X ChannelValues,
          t \in DarkThresholds :
        /\ fillColor' = c
        /\ blackThreshold' = t
        /\ darkVerdict' =
              [detect |-> detect_black_rectangles(FilledDoc(c), t).boxes # <<>>,
               find |-> get_black_boxes(FilledDoc(c)) # <<>>,
               sample |-> get_black_boxes_sample(FilledDoc(c), t) # <<>>,
               test |-> get_black_boxes_test(FilledDoc(c), t).boxes # <<>>,
               selectable |-> has_black_elements(FilledDoc(c))]
    /\ pc' = "dark_done"
    /\ UNCHANGED <<geomVars, docVars, progVars, lineVars, renderVars>>

DarkNext == EvalDark

SpecDark == Init /\ [][DarkNext]_vars

\* Areas by counting unit cells, independently of the predicates' arithmetic.
Cells(r) == (r.x0 .. r.x1 - 1) \X (r.y0 .. r.y1 - 1)
Area(r) == Cardinality(Cells(r))
InterArea(a, b) == Cardinality(Cells(a) \cap Cells(b))

\* ratio(glyph, box) >= t, the ratio of a zero-area glyph being 0
RatioAtLeast(g, b, t) ==
    /\ Area(g) > 0
    /\ InterArea(g, b) * t[2] >= t[1] * Area(g)

AllVerdicts(v) ==
    /\ verdict.rectangles = v
    /\ verdict.boxes = v
    /\ verdict.sample = v
    /\ verdict.test = v

\* C1: every overlap predicate, called as its matcher calls it, answers true
\* exactly when intersection area / glyph area >= threshold (inclusive).
C1_MatchIffRatioAtLeastThreshold ==
    pc = "overlap_done" =>
        AllVerdicts(RatioAtLeast(glyphRect, boxRect, threshold))

\* C1 witness: a glyph whose ratio is exactly the threshold 0.5 is matched.
C1_Witness ==
    /\ pc = "overlap_done"
    /\ threshold = DefaultOverlapThreshold
    /\ InterArea(glyphRect, boxRect) * 2 = Area(glyphRect)
    /\ Area(glyphRect) > 0
    /\ AllVerdicts(TRUE)

\* C2: a glyph whose intersection with the box has zero area, or a pair with a
\* zero-area glyph or box, is matched by no predicate, for every threshold.
C2_ZeroIntersectionNeverMatches ==
    (/\ pc = "overlap_done"
     /\ \/ InterArea(glyphRect, boxRect) = 0
        \/ Area(glyphRect) = 0
        \/ Area(boxRect) = 0)
    => AllVerdicts(FALSE)

\* C2 witness: two positive-area rectangles that only touch were compared.
C2_Witness ==
    /\ pc = "overlap_done"
    /\ Area(glyphRect) > 0
    /\ Area(boxRect) > 0
    /\ glyphRect.x1 = boxRect.x0
    /\ glyphRect.y0 = boxRect.y0
    /\ AllVerdicts(FALSE)

(***************************************************************************)
(* Properties of the document analysis                                     *)
(***************************************************************************)

GlyphRectOf(c) == Rect(c.x0, c.top, c.x1, c.bottom)
BoxRectOf(b) == Rect(b.x0, b.y0, b.x1, b.y1)
Contained(g, b) ==
    b.x0 <= g.x0 /\ g.x1 <= b.x1 /\ b.y0 <= g.y0 /\ g.y1 <= b.y1
PageNums == 1..Len(doc.pages)
\* Page p of the document carries a redaction box of the analysis: a filled
\* path or an image block.
CarriesBox(p) ==
    \/ \E k \in 1..Len(doc.pages[p].drawings) :
          doc.pages[p].drawings[k].type = "f"
    \/ doc.pages[p].blocks # <<>>
CarriesDrawing(p) == doc.pages[p].drawings # <<>>
\* Pairs (drawing, character) of one page whose ratio reaches threshold t.
SamePagePairs(t) ==
    { w \in UNION { {p} \X (1..Len(doc.pages[p].drawings))
                        \X (1..Len(doc.pages[p].chars)) : p \in PageNums } :
        RatioAtLeast(GlyphRectOf(doc.pages[w[1]].chars[w[3]]),
                     doc.pages[w[1]].drawings[w[2]].rect, t) }

\* C3: a glyph is only attributed to boxes of its own page.  Every entry of
\* check_text_under_boxes is a glyph of the entry's page that reaches the
\* threshold on a box of that same page; every character test_pdf reports
\* for a box is a glyph of the box's page under a drawing of that page; and
\* test_pdf_quick counts exactly the same-page (box, glyph) pairs.
C3_GlyphsMatchOnlyBoxesOfTheirPage ==
    /\ (pc = "analyzed" /\ textCheck # NotRun) =>
          \A j \in 1..Len(textCheck.redacted_chars) :
              LET e == textCheck.redacted_chars[j]
              IN  /\ \E k \in 1..Len(doc.pages[e.page + 1].chars) :
                        /\ doc.pages[e.page + 1].chars[k].text = e.text
                        /\ GlyphRectOf(doc.pages[e.page + 1].chars[k]) = e.bbox
                  /\ \E k \in 1..Len(redactionBoxes) :
                        /\ redactionBoxes[k].page = e.page
                        /\ RatioAtLeast(e.bbox, BoxRectOf(redactionBoxes[k]),
                                        DefaultOverlapThreshold)
    /\ (pc = "tested" /\ improper # NoneResult) =>
          \A j \in 1..Len(improper.sample_text) :
              LET e == improper.sample_text[j]
              IN  \A i \in 1..Len(e.text) :
                    \E k \in 1..Len(doc.pages[e.page + 1].chars),
                       b \in 1..Len(doc.pages[e.page + 1].drawings) :
                        /\ doc.pages[e.page + 1].chars[k].text = e.text[i]
                        /\ RatioAtLeast(
                              GlyphRectOf(doc.pages[e.page + 1].chars[k]),
                              doc.pages[e.page + 1].drawings[b].rect,
                              BoxesOverlapThreshold)
    /\ (pc = "quick_tested" /\ doc.fault = NoFault) =>
          quick.recoverable_chars =
              Cardinality(SamePagePairs(BoxesOverlapThreshold))

\* C3 witness: a glyph lies inside the rectangle of a box that is on another
\* page, no box is on the glyph's page, and the analysis attributed nothing.
C3_Witness ==
    /\ pc = "analyzed"
    /\ doc.fault = NoFault
    /\ Len(redactionBoxes) = 1
    /\ redactionBoxes[1].page = 0
    /\ Len(doc.pages) >= 2
    /\ doc.pages[1].chars = <<>>
    /\ \E k \in 1..Len(doc.pages[2].chars) :
          Contained(GlyphRectOf(doc.pages[2].chars[k]),
                    BoxRectOf(redactionBoxes[1]))
    /\ textCheck # NotRun
    /\ textCheck.redacted_text_count = 0

\* C4: whatever path analyze_pdf_for_redactions returns by, should_process
\* holds exactly when redaction_box_count > 0 and redacted_char_count > 0.
C4_ShouldProcessIffBoxesAndChars ==
    pc = "analyzed" =>
        (analysis.should_process <=>
            (analysis.redaction_box_count > 0
             /\ analysis.redacted_char_count > 0))

\* C4 witness: a completed analysis with boxes, characters and should_process.
C4_Witness ==
    /\ pc = "analyzed"
    /\ analysis.error = "None"
    /\ analysis.redaction_box_count > 0
    /\ analysis.redacted_char_count > 0
    /\ analysis.should_process

\* The document is readable, has a single redaction box, a black filled
\* rectangle, and n >= 1 positive-area glyphs, all inside it on its page.
OneBoxOverAllGlyphs ==
    /\ doc.fault = NoFault
    /\ \E p \in PageNums :
        /\ doc.pages[p].drawings # <<>>
        /\ Len(doc.pages[p].drawings) = 1
        /\ doc.pages[p].drawings[1].type = "f"
        /\ doc.pages[p].drawings[1].fill = Black
        /\ doc.pages[p].chars # <<>>
        /\ \A k \in 1..Len(doc.pages[p].chars) :
              /\ Area(GlyphRectOf(doc.pages[p].chars[k])) > 0
              /\ Contained(GlyphRectOf(doc.pages[p].chars[k]),
                           doc.pages[p].drawings[1].rect)
        /\ \A q \in PageNums :
              /\ doc.pages[q].blocks = <<>>
              /\ q # p => doc.pages[q].drawings = <<>>
                          /\ doc.pages[q].chars = <<>>
GlyphCount == SumSeq([p \in PageNums |-> Len(doc.pages[p].chars)])

\* C6: n >= 1 glyphs fully inside the only box, a black filled rectangle of
\* their page, give should_process, has_recoverable_text and
\* redacted_char_count = n, and the count is n at every threshold in (0,1].
C6_ContainedGlyphsAllCounted ==
    (pc = "analyzed" /\ OneBoxOverAllGlyphs) =>
        /\ analysis.should_process
        /\ analysis.has_recoverable_text
        /\ analysis.redacted_char_count = GlyphCount
        /\ \A t \in Thresholds :
              check_text_under_boxes(doc, redactionBoxes, t)
                  .redacted_text_count = GlyphCount

\* C6 witness: the analysis of the box over "SECRET" counted 6 characters.
C6_Witness ==
    /\ pc = "analyzed"
    /\ OneBoxOverAllGlyphs
    /\ doc = SecretDoc
    /\ analysis.redacted_char_count = 6
    /\ [j \in 1..6 |-> textCheck.redacted_chars[j].text] = SecretText

\* C7: a document with at least one redaction box and no glyph on any page
\* that carries a box has has_recoverable_text = false, redacted_char_count
\* = 0 and should_process = false, and test_pdf returns None for it.
C7_BoxesWithoutGlyphsNotRecoverable ==
    /\ (/\ pc = "analyzed"
        /\ \E p \in PageNums : CarriesBox(p)
        /\ \A p \in PageNums : CarriesBox(p) => doc.pages[p].chars = <<>>)
       => /\ ~analysis.has_recoverable_text
          /\ analysis.redacted_char_count = 0
          /\ ~analysis.should_process
    /\ (/\ pc = "tested"
        /\ \E p \in PageNums : CarriesDrawing(p)
        /\ \A p \in PageNums : CarriesDrawing(p) => doc.pages[p].chars = <<>>)
       => improper = NoneResult

\* C7 witness: a readable document with a box on one page and its only
\* glyphs on another was analysed, and the box was found.
C7_Witness ==
    /\ pc = "analyzed"
    /\ doc.fault = NoFault
    /\ analysis.has_redaction_boxes
    /\ \A p \in PageNums : CarriesBox(p) => doc.pages[p].chars = <<>>
    /\ \E p \in PageNums : doc.pages[p].chars # <<>>
    /\ ~analysis.should_process

\* C8: when one page fails during box or glyph extraction, the boxes of every
\* other page, before and after it, are still collected, and the glyphs of
\* every other page still take part in matching.
C8_OtherPagesStillCollected ==
    (pc = "analyzed" /\ doc.fault.kind = "page" /\ ~doc.printRaises) =>
        \A p \in PageNums \ {doc.fault.page} :
            /\ \A k \in 1..Len(doc.pages[p].drawings) :
                  doc.pages[p].drawings[k].type = "f" =>
                      \E b \in 1..Len(redactionBoxes) :
                          redactionBoxes[b] =
                              Box(p - 1, doc.pages[p].drawings[k].rect)
            /\ \A k \in 1..Len(doc.pages[p].chars) :
                  (\E j \in 1..Len(doc.pages[p].drawings) :
                      /\ doc.pages[p].drawings[j].type = "f"
                      /\ Contained(GlyphRectOf(doc.pages[p].chars[k]),
                                   doc.pages[p].drawings[j].rect))
                  => /\ textCheck # NotRun
                     /\ \E j \in 1..Len(textCheck.redacted_chars) :
                          /\ textCheck.redacted_chars[j].page = p - 1
                          /\ textCheck.redacted_chars[j].text =
                                 doc.pages[p].chars[k].text

(***************************************************************************)
(* Properties of the programs                                              *)
(***************************************************************************)

Unreadable(d) == d.fault.kind = "open"
InputMissing ==
    \/ prog = DetectProg /\ args.input = "missing"
    \/ prog = ExtractProg /\ args.input = <<"missing">>
ErrorReported == console \cap {"Input not found", "Not found"} # {}

\* The batch loop was entered, and over which files.
InBatch == pc \in {"render", "batch"}
BatchRan ==
    \/ prog = DetectProg /\ toProcess # <<>>
    \/ prog = ExtractProg /\ files # <<>> /\ (Len(files) > 1 \/ args.batch)
Selected ==
    IF prog = DetectProg THEN [i \in 1..Len(toProcess) |-> toProcess[i].path]
    ELSE files

\* C5: the report of a scan has one entry per input file, the entry of each
\* file that cannot be opened has a non-null error, the entry of every
\* readable file has a null error, and the scan does not crash.
C5_ReportMarksUnreadableFiles ==
    /\ (prog = DetectProg /\ pc = "process" /\ args.report) =>
          /\ Len(report.files) = Len(files)
          /\ \A i \in 1..Len(files) :
                Unreadable(files[i]) <=> report.files[i].error # "None"
    /\ (prog = DetectProg /\ pc = "summary") => Len(results) = Len(files)

\* C9: a top-level input path that is neither a file nor a directory makes
\* the program report an error and end with a non-zero exit status.
C9_MissingInputExitsNonZero ==
    (pc = "exited" /\ InputMissing) =>
        /\ ErrorReported
        /\ exitStatus # <<0>>

Flatten(ls) == FlatMap(ls, Len(ls))
SumOfTops(ws) == SumSeq([k \in 1..Len(ws) |-> ws[k].top])
SameWords(a, b) ==
    /\ Len(a) = Len(b)
    /\ \A w \in {a[k] : k \in 1..Len(a)} :
          Cardinality({k \in 1..Len(a) : a[k] = w})
              = Cardinality({k \in 1..Len(b) : b[k] = w})
\* |top - mean of the tops of ws| <= line_tol, without dividing
NearMean(top, ws, line_tol) ==
    Abs(Len(ws) * top - SumOfTops(ws)) <= line_tol * Len(ws)

\* C19: the clusters are the words in (top, x0) order, cut exactly where a
\* word's top is more than line_tol away from the mean of the tops of all
\* the words of the cluster before it; inside a cluster every word is within
\* line_tol of the mean of the words of the cluster in front of it.
C19_JoinIffNearRunningMean ==
    pc = "lines_done" =>
        /\ SameWords(Flatten(clusters), words)
        /\ \A k \in 1..Len(Flatten(clusters)) - 1 :
              LET a == Flatten(clusters)[k]
                  b == Flatten(clusters)[k + 1]
              IN  a.top < b.top \/ (a.top = b.top /\ a.x0 <= b.x0)
        /\ \A c \in 1..Len(clusters) :
              /\ clusters[c] # <<>>
              /\ \A m \in 2..Len(clusters[c]) :
                    NearMean(clusters[c][m].top,
                             SubSeq(clusters[c], 1, m - 1),
                             lineParams.line_tol)
              /\ c > 1 => ~NearMean(clusters[c][1].top, clusters[c - 1],
                                    lineParams.line_tol)

\* C19 witness: a word joined a cluster whose first word is more than
\* line_tol above it, because the mean of the cluster is near enough.
C19_Witness ==
    /\ pc = "lines_done"
    /\ \E c \in 1..Len(clusters) :
          /\ Len(clusters[c]) >= 3
          /\ clusters[c][3].top - clusters[c][1].top > lineParams.line_tol

\* The words of cluster c by increasing x0, when every word starts behind
\* the end of the one before it (so that every gap is positive).
ByIncreasingX0(c) ==
    CHOOSE f \in [1..Len(c) -> 1..Len(c)] :
        \A i \in 1..Len(c) - 1 : c[f[i]].x1 < c[f[i + 1]].x0
AllGapsPositive(c) ==
    \E f \in [1..Len(c) -> 1..Len(c)] :
        \A i \in 1..Len(c) - 1 : c[f[i]].x1 < c[f[i + 1]].x0
\* max(min_spaces, round(gap / max(0.5, space_unit_pts))): the integer
\* nearest to the quotient, the even one of two equally near.
NearestInteger(gap, unit) ==
    CHOOSE m \in 0..gap :
        \/ 2 * Abs(gap - m * unit) < unit
        \/ (2 * Abs(gap - m * unit) = unit /\ m % 2 = 0)
ExpectedSpaces(gap, p) ==
    LET unit == IF p.space_unit_pts < HalfPoint THEN HalfPoint
                ELSE p.space_unit_pts
        m == NearestInteger(gap, unit)
    IN  IF m < p.min_spaces THEN p.min_spaces ELSE m
ExpectedText(c, p) ==
    LET f == ByIncreasingX0(c)
    IN  FlatMap([i \in 1..Len(c) |->
            (IF i = 1 THEN <<>>
             ELSE Spaces(ExpectedSpaces(c[f[i]].x0 - c[f[i - 1]].x1, p)))
            \o c[f[i]].text], Len(c))

\* C20: in a line whose gaps are all positive, the text is the words with
\* exactly max(min_spaces, round(gap / max(0.5, space_unit_pts))) spaces
\* between neighbours: never fewer than min_spaces, and a space_unit_pts
\* below half a point counts as half a point.
C20_SpacesAreRoundedGapFlooredAtMin ==
    pc = "lines_done" =>
        \A k \in 1..Len(clusters) :
            AllGapsPositive(clusters[k]) =>
                rebuilt[k].built.text = ExpectedText(clusters[k], lineParams)

\* C20 witness: with space_unit_pts below half a point and min_spaces = 1, a
\* gap of a quarter of a point, which rounds to no space, got one space.
C20_Witness ==
    /\ pc = "lines_done"
    /\ lineParams.space_unit_pts < HalfPoint
    /\ lineParams.min_spaces = 1
    /\ \E k \in 1..Len(clusters) :
          /\ Len(clusters[k]) = 2
          /\ AllGapsPositive(clusters[k])
          /\ \E i, j \in 1..2 : clusters[k][j].x0 - clusters[k][i].x1 = 1
          /\ Len(rebuilt[k].built.text) = 3
          /\ rebuilt[k].built.text[2] = " "

\* C14: every line process_single_page returns has a character that is not
\* a space; the lines returned are the built lines that have one, in order,
\* the others being dropped; and no words give no lines.
C14_NoWhitespaceOnlyLines ==
    pc = "lines_done" =>
        /\ \A k \in 1..Len(pageLines) :
              \E i \in 1..Len(pageLines[k].text) : pageLines[k].text[i] # " "
        /\ LET Visible(r) == \E i \in 1..Len(r.built.text) :
                                 r.built.text[i] # " "
               kept == SelectSeq(rebuilt, Visible)
           IN  /\ Len(pageLines) = Len(kept)
               /\ \A k \in 1..Len(kept) :
                     /\ pageLines[k].text = kept[k].built.text
                     /\ pageLines[k].x0 = kept[k].built.x0
                     /\ pageLines[k].top = kept[k].built.top
                     /\ pageLines[k].font_size = kept[k].built.font_size
        /\ words = <<>> => (clusters = <<>> /\ pageLines = <<>>)

\* C14 witness: a cluster was built into a text of spaces only and dropped,
\* while another line of the page was kept.
C14_Witness ==
    /\ pc = "lines_done"
    /\ \E k \in 1..Len(rebuilt) :
          /\ rebuilt[k].built.text # <<>>
          /\ \A i \in 1..Len(rebuilt[k].built.text) :
                rebuilt[k].built.text[i] = " "
    /\ Len(pageLines) = 1
    /\ Len(clusters) = 2

\* C13: "Hello" (x0 0, x1 30, top 100) and "World" (x0 40, x1 70, top 100.5)
\* with line_tol 2.0, space_unit_pts 5.0 and min_spaces 1 give one line, of
\* text "Hello  World", whose top is the midpoint 100.25 of the two tops (to
\* less than an eighth of a point).
C13_HelloWorldOneLine ==
    (pc = "lines_done" /\ words = HelloWorldWords
                       /\ lineParams = HelloWorldParams) =>
        /\ Len(pageLines) = 1
        /\ pageLines[1].text = <<"H", "e", "l", "l", "o", " ", " ",
                                 "W", "o", "r", "l", "d">>
        /\ 4 * Abs(2 * pageLines[1].top - (words[1].top + words[2].top))
              < UnitsPerPt

\* C16: a built line whose words are placed again from its text, each gap
\* being the number of spaces times space_unit_pts, is built into the same
\* text again (for words that have text and a space_unit_pts of at least
\* half a point).
C16_RebuildIsIdempotent ==
    (pc = "lines_done" /\ lineParams.space_unit_pts >= HalfPoint) =>
        \A k \in 1..Len(clusters) :
            (\A i \in 1..Len(clusters[k]) : clusters[k][i].text # <<>>)
                => rebuilt[k].again = rebuilt[k].built.text

(***************************************************************************)
(* Properties of the darkness test                                         *)
(***************************************************************************)

IsDark(c, t) == \A i \in 1..3 : c[i] <= t

\* C15: a filled path is taken for a redaction box exactly when each of r, g
\* and b is <= the threshold, by every extractor at the threshold it is
\* given (0.2 for those that have it built in); so black is dark at every
\* threshold >= 0 and white is not dark at any threshold < 1.
C15_DarkIffAllChannelsAtMostThreshold ==
    pc = "dark_done" =>
        /\ darkVerdict.detect = IsDark(fillColor, blackThreshold)
        /\ darkVerdict.sample = IsDark(fillColor, blackThreshold)
        /\ darkVerdict.test = IsDark(fillColor, blackThreshold)
        /\ darkVerdict.find = IsDark(fillColor, BlackBoxLiteral)
        /\ darkVerdict.selectable = IsDark(fillColor, BlackBoxLiteral)
        /\ fillColor = <<0, 0, 0>> =>
              darkVerdict.detect /\ darkVerdict.sample /\ darkVerdict.test
        /\ (fillColor = <<100, 100, 100>> /\ blackThreshold < 100) =>
              ~darkVerdict.detect /\ ~darkVerdict.sample /\ ~darkVerdict.test

\* C15 witness: a colour with a channel exactly at the threshold 0.15, the
\* others below it, was taken for dark.
C15_Witness ==
    /\ pc = "dark_done"
    /\ blackThreshold = DetectBlackThreshold
    /\ fillColor = <<0, DetectBlackThreshold, 0>>
    /\ darkVerdict.detect
    /\ darkVerdict.sample

(***************************************************************************)
(* Properties of the highlighted output                                    *)
(***************************************************************************)

LinesOfSourcePage(i) ==
    page_lines(source.pages[i].words, DefaultLineTol, DefaultSpaceUnit,
               DefaultMinSpaces)

Extracted == pc \in {"extracted", "rendering", "rendered"}

\* C11: for a document of N pages extract_lines_parallel returns N entries,
\* entry i holding the reconstructed lines and the size of page i and none
\* left unset, whatever the number of workers and the order they finish in.
C11_EntriesIndexedByPage ==
    Extracted =>
        /\ Len(pagesLines) = Len(source.pages)
        /\ Len(pageRects) = Len(source.pages)
        /\ \A i \in 1..Len(source.pages) :
              /\ pagesLines[i].value = "set"
              /\ pagesLines[i].lines = LinesOfSourcePage(i)
              /\ pageRects[i].value = "set"
              /\ pageRects[i].rect.width = source.pages[i].width
              /\ pageRects[i].rect.height = source.pages[i].height

\* C11 witness: three workers finished three pages, the last page first and
\* the first page last, and the lists were returned.
C11_Witness ==
    /\ pc = "extracted"
    /\ source.workers = 3
    /\ Len(arrived) = 3
    /\ arrived[1].page_num = 2
    /\ arrived[3].page_num = 0
    /\ source.pages[1] # source.pages[3]
    /\ pagesLines[1].lines # pagesLines[3].lines

\* C12: a page is rendered only once the reconstruction of every page has
\* completed and no worker is running, and the pages are rendered one at a
\* time in strictly increasing page index.
C12_RenderAfterAllPagesReconstructed ==
    (pc \in {"rendering", "rendered"} \/ outPages # << >>) =>
        /\ running = {}
        /\ nextTask = Len(source.pages)
        /\ Len(arrived) = Len(source.pages)
        /\ \A k \in 1..Len(outPages) : outPages[k].index = k - 1

\* C12 witness: two pages are rendered, the third is not yet, after two
\* workers finished the pages out of order.
C12_Witness ==
    /\ pc = "rendering"
    /\ Len(source.pages) = 3
    /\ Len(outPages) = 2
    /\ source.workers = 2
    /\ arrived[1].page_num = 1

\* C18: the side-by-side output has one page per source page, in order;
\* page i is twice as wide and as high as source page i, shows source page i
\* in its left half, and carries one text per reconstructed line of page i,
\* and no other, at (w_i + x0, top + 0.85 * font_size).
C18_SideBySideLayout ==
    (pc = "rendered" /\ source.mode = "side_by_side") =>
        /\ Len(outPages) = Len(source.pages)
        /\ \A i \in 1..Len(source.pages) :
              LET page == source.pages[i]
                  out == outPages[i]
                  lines == LinesOfSourcePage(i)
              IN  /\ out.width = 2 * page.width
                  /\ out.height = page.height
                  /\ out.shown.page = i - 1
                  /\ <<out.shown.x0, out.shown.y0>> = <<0, 0>>
                  /\ <<out.shown.x1, out.shown.y1>> =
                         <<page.width, page.height>>
                  /\ Len(out.texts) = Len(lines)
                  /\ \A k \in 1..Len(lines) :
                        /\ out.texts[k].txt = lines[k].text
                        /\ out.texts[k].x = page.width + lines[k].x0
                        /\ out.texts[k].x >= page.width
                        /\ out.texts[k].y =
                              100 * lines[k].top + 85 * lines[k].font_size
                        /\ out.texts[k].fontsize = lines[k].font_size

\* C18 witness: a side-by-side output of two different pages with lines,
\* the second with two lines, the line of the first drawn 8 points right of
\* the middle of its page.
C18_Witness ==
    /\ pc = "rendered"
    /\ source.mode = "side_by_side"
    /\ Len(outPages) >= 2
    /\ Len(outPages[1].texts) = 1
    /\ Len(outPages[2].texts) = 2
    /\ outPages[1].texts[1].x = outPages[1].width \div 2 + 8 * UnitsPerPt

(***************************************************************************)
(* Properties of the gaps of build_line_text                               *)
(***************************************************************************)

\* The words of cluster c by increasing x0, words of equal x0 in the order
\* of the cluster.
InX0Order(c) ==
    CHOOSE f \in [1..Len(c) -> 1..Len(c)] :
        \A i, j \in 1..Len(c) :
            i < j => \/ c[f[i]].x0 < c[f[j]].x0
                     \/ (c[f[i]].x0 = c[f[j]].x0 /\ f[i] < f[j])
\* No word of c ends left of the end of a word that starts before it.
EndsInOrder(c) ==
    LET f == InX0Order(c)
    IN  \A i \in 1..Len(c) - 1 : c[f[i]].x1 <= c[f[i + 1]].x1
NoGapPositive(c) ==
    LET f == InX0Order(c)
    IN  \A i \in 1..Len(c) - 1 : c[f[i + 1]].x0 - c[f[i]].x1 <= 0
\* What stands between two words at the given gap: for a gap of at most 0
\* one space if gap > -0.3 * space_unit_pts, else nothing.
ExpectedSeparator(gap, p) ==
    IF gap > 0 THEN Spaces(ExpectedSpaces(gap, p))
    ELSE IF 10 * gap > -3 * p.space_unit_pts THEN <<" ">>
    ELSE << >>
\* The words of c in x0 order, each separated from the word right before
\* it according to the gap between the two.
NeighbourText(c, p) ==
    LET f == InX0Order(c)
    IN  FlatMap([i \in 1..Len(c) |->
            (IF i = 1 THEN << >>
             ELSE ExpectedSeparator(c[f[i]].x0 - c[f[i - 1]].x1, p))
            \o c[f[i]].text], Len(c))

\* C21: between consecutive words whose gap is at most 0 stands exactly one
\* space when gap > -0.3 * space_unit_pts (gap = 0 included) and nothing
\* when gap <= -0.3 * space_unit_pts, whatever min_spaces is.
C21_NonPositiveGapOneSpaceOrNone ==
    pc = "lines_done" =>
        \A k \in 1..Len(clusters) :
            (EndsInOrder(clusters[k]) /\ NoGapPositive(clusters[k])) =>
                rebuilt[k].built.text = NeighbourText(clusters[k], lineParams)

\* C21 witness: with min_spaces = 2, a word at gap 0 got one space and the
\* next word, a whole point inside it, none.
C21_Witness ==
    /\ pc = "lines_done"
    /\ lineParams.min_spaces = 2
    /\ \E k \in 1..Len(clusters) :
          /\ Len(clusters[k]) = 3
          /\ EndsInOrder(clusters[k])
          /\ \E a, b, c \in 1..3 :
                /\ clusters[k][b].x0 - clusters[k][a].x1 = 0
                /\ clusters[k][c].x0 - clusters[k][b].x1 = -UnitsPerPt
                /\ rebuilt[k].built.text =
                       clusters[k][a].text \o <<" ">> \o clusters[k][b].text
                           \o clusters[k][c].text

\* C22: the text of every line is its words in x0 order, each separated
\* from the word immediately before it according to the gap between its x0
\* and that word's x1.
C22_GapIsFromPrecedingWord ==
    pc = "lines_done" =>
        \A k \in 1..Len(clusters) :
            rebuilt[k].built.text = NeighbourText(clusters[k], lineParams)

(***************************************************************************)
(* Properties of the candidate boxes                                       *)
(***************************************************************************)

\* The primitives of page p (from 1) of d tagged as filled shapes whose
\* fill has no channel above t, and the image blocks of the page.
DarkFilledShapes(d, p, t) ==
    { k \in 1..Len(d.pages[p].drawings) :
        /\ d.pages[p].drawings[k].type = "f"
        /\ \A ch \in 1..3 : d.pages[p].drawings[k].fill[ch] <= t }
ImageBlocksOf(d, p) ==
    { k \in 1..Len(d.pages[p].blocks) : d.pages[p].blocks[k].type = 1 }
CandidatesOfPage(d, p, t) ==
    Cardinality(DarkFilledShapes(d, p, t)) + Cardinality(ImageBlocksOf(d, p))
CandidatesOf(d, t) ==
    SumSeq([p \in 1..Len(d.pages) |-> CandidatesOfPage(d, p, t)])

\* detect_black_rectangles found, on every page, one box per dark filled
\* shape and one per image block.
DetectedAreTheCandidates ==
    (pc = "analyzed" /\ doc.fault = NoFault) =>
        \A p \in 1..Len(doc.pages) :
            Len(page_boxes(redactionBoxes, p - 1)) =
                CandidatesOfPage(doc, p, DetectBlackThreshold)
\* get_black_boxes (random_sample_test) found as many boxes.
SampledAreTheCandidates ==
    (pc = "quick_tested" /\ doc.fault = NoFault) =>
        quick.black_boxes = CandidatesOf(doc, SampleBlackThreshold)
\* get_black_boxes (find_improper_redactions) found as many boxes, when
\* test_pdf reports their number.
ImproperAreTheCandidates ==
    (pc = "tested" /\ doc.fault = NoFault /\ improper.returned = "dict") =>
        improper.black_boxes = CandidatesOf(doc, BlackBoxLiteral)

\* C23: every box extractor produces, for a page, one box for each filled
\* shape with a dark fill plus one box for each image block, and no box for
\* anything else.
C23_CandidatesAreDarkFilledShapesAndImages ==
    /\ DetectedAreTheCandidates
    /\ SampledAreTheCandidates
    /\ ImproperAreTheCandidates

(***************************************************************************)
(* Properties of the recovered text                                        *)
(***************************************************************************)

\* The drawings of the document, page after page: <<page, index>>.
DrawingSlots ==
    FlatMap([p \in 1..Len(doc.pages) |->
                [k \in 1..Len(doc.pages[p].drawings) |-> <<p, k>>]],
            Len(doc.pages))
\* The characters of page s[1], in the order of the page's character
\* stream, that reach the threshold of test_pdf on drawing s of the page.
GlyphsMatchedTo(s) ==
    LET Matched(c) ==
            RatioAtLeast(GlyphRectOf(c), doc.pages[s[1]].drawings[s[2]].rect,
                         BoxesOverlapThreshold)
    IN  SelectSeq(doc.pages[s[1]].chars, Matched)
\* One entry per drawing that has matched characters.
ExpectedRecovered ==
    FlatMap([n \in 1..Len(DrawingSlots) |->
        LET glyphs == GlyphsMatchedTo(DrawingSlots[n])
        IN  IF glyphs = << >> THEN << >>
            ELSE <<[page |-> DrawingSlots[n][1] - 1,
                    text |-> [j \in 1..Len(glyphs) |-> glyphs[j].text],
                    char_count |-> Len(glyphs)]>>], Len(DrawingSlots))

\* C24: the text test_pdf recovers for a box is made of the characters of
\* exactly the glyphs matched to the box, in the order of the page's
\* character stream, and char_count is the number of those glyphs.
C24_RecoveredTextInStreamOrder ==
    (pc = "tested" /\ doc.fault = NoFault /\ improper.returned = "dict") =>
        /\ improper.recoverable_areas = Len(ExpectedRecovered)
        /\ improper.sample_text =
              SubSeq(ExpectedRecovered, 1, Min(5, Len(ExpectedRecovered)))
        /\ \A n \in 1..Len(improper.sample_text) :
              improper.sample_text[n].char_count =
                  Len(improper.sample_text[n].text)

\* C24 witness: of two matched glyphs of a box the one further right comes
\* first in the stream, and first in the recovered text.
C24_Witness ==
    /\ pc = "tested"
    /\ improper.returned = "dict"
    /\ \E p \in 1..Len(doc.pages) :
          /\ Len(doc.pages[p].chars) = 2
          /\ doc.pages[p].chars[1].x0 > doc.pages[p].chars[2].x0
          /\ \E n \in 1..Len(improper.sample_text) :
                /\ improper.sample_text[n].page = p - 1
                /\ improper.sample_text[n].char_count = 2
                /\ improper.sample_text[n].text =
                       <<doc.pages[p].chars[1].text,
                         doc.pages[p].chars[2].text>>

(***************************************************************************)
(* Agreement of the overlap predicates                                     *)
(***************************************************************************)

\* Intersection area over the area of rectangle r reaches t.
RatioOver(r, g, b, t) ==
    Area(r) > 0 /\ InterArea(g, b) * t[2] >= t[1] * Area(r)

\* C25: as their matchers call them, rectangles_overlap(glyph, box, t) and
\* the three boxes_overlap(box, glyph, t) give one and the same verdict, and
\* it follows the ratio over the glyph's area where the ratio over the
\* box's area would decide otherwise.
C25_AllCallSitesDivideByGlyphArea ==
    pc = "overlap_done" =>
        /\ verdict.boxes = verdict.rectangles
        /\ verdict.sample = verdict.rectangles
        /\ verdict.test = verdict.rectangles
        /\ (RatioOver(glyphRect, glyphRect, boxRect, threshold)
              /\ ~RatioOver(boxRect, glyphRect, boxRect, threshold))
               => verdict.rectangles /\ verdict.boxes
        /\ (RatioOver(boxRect, glyphRect, boxRect, threshold)
              /\ ~RatioOver(glyphRect, glyphRect, boxRect, threshold))
               => ~verdict.rectangles /\ ~verdict.boxes

\* C25 witness: a glyph inside a box four times its size is matched by all
\* four predicates at threshold 0.5, which the ratio over the box misses.
C25_Witness ==
    /\ pc = "overlap_done"
    /\ threshold = DefaultOverlapThreshold
    /\ Area(boxRect) = 4 * Area(glyphRect)
    /\ InterArea(glyphRect, boxRect) = Area(glyphRect)
    /\ Area(glyphRect) > 0
    /\ verdict.rectangles /\ verdict.boxes /\ verdict.sample /\ verdict.test

(***************************************************************************)
(* Properties of the count of recoverable characters                       *)
(***************************************************************************)

\* The glyphs <<page, index>> of the document, and those of them that
\* reach the threshold on at least one detected box of their page.
GlyphsOfDoc ==
    UNION { {p} \X (1..Len(doc.pages[p].chars)) : p \in PageNums }
GlyphsUnderSomeBox ==
    { g \in GlyphsOfDoc :
        \E k \in 1..Len(redactionBoxes) :
            /\ redactionBoxes[k].page = g[1] - 1
            /\ RatioAtLeast(GlyphRectOf(doc.pages[g[1]].chars[g[2]]),
                            BoxRectOf(redactionBoxes[k]),
                            DefaultOverlapThreshold) }

\* C26: check_text_under_boxes counts a glyph once however many boxes of
\* its page it matches: redacted_text_count never exceeds the number of
\* glyphs of the document and, when every page could be read, is the number
\* of glyphs that match at least one box.
C26_EachGlyphCountedOnce ==
    (pc = "analyzed" /\ textCheck # NotRun) =>
        /\ textCheck.redacted_text_count = Len(textCheck.redacted_chars)
        /\ textCheck.redacted_text_count <= Cardinality(GlyphsOfDoc)
        /\ textCheck.redacted_text_count <= Cardinality(GlyphsUnderSomeBox)
        /\ doc.fault = NoFault =>
              textCheck.redacted_text_count = Cardinality(GlyphsUnderSomeBox)

\* C26 witness: one glyph lies under two boxes of its page and is counted
\* once.
C26_Witness ==
    /\ pc = "analyzed"
    /\ doc.fault = NoFault
    /\ Len(redactionBoxes) = 2
    /\ redactionBoxes[1].page = redactionBoxes[2].page
    /\ Cardinality(GlyphsOfDoc) = 1
    /\ \A g \in GlyphsOfDoc :
          \A k \in 1..2 :
              /\ redactionBoxes[k].page = g[1] - 1
              /\ RatioAtLeast(GlyphRectOf(doc.pages[g[1]].chars[g[2]]),
                              BoxRectOf(redactionBoxes[k]),
                              DefaultOverlapThreshold)
    /\ textCheck # NotRun
    /\ textCheck.redacted_text_count = 1

(***************************************************************************)
(* Properties of the analysis report                                       *)
(***************************************************************************)

\* C27: in every report written the counters are ordered:
\* files_to_process = files_with_recoverable_text
\*   <= files_with_redaction_boxes <= total_files = len(files).
C27_ReportCountersOrdered ==
    report # NotRun =>
        /\ report.files_to_process = report.files_with_recoverable_text
        /\ report.files_with_recoverable_text
              <= report.files_with_redaction_boxes
        /\ report.files_with_redaction_boxes <= report.total_files
        /\ report.total_files = Len(report.files)
        /\ report.files = results

\* C27 witness: a report of three files, two of them with boxes and one of
\* these with text under its box.
C27_Witness ==
    /\ report # NotRun
    /\ report.total_files = 3
    /\ report.files_with_redaction_boxes = 2
    /\ report.files_with_recoverable_text = 1
    /\ report.files_to_process = 1

(***************************************************************************)
(* The clusters as a partition of the words                                *)
(***************************************************************************)

\* The places the words take when sorted by (top, x0), words of equal top
\* and x0 staying in the order of the input: place i holds word f[i].
PlacesByTopThenX0 ==
    CHOOSE f \in [1..Len(words) -> 1..Len(words)] :
        \A i, j \in 1..Len(words) :
            i < j =>
                \/ words[f[i]].top < words[f[j]].top
                \/ /\ words[f[i]].top = words[f[j]].top
                   /\ words[f[i]].x0 < words[f[j]].x0
                \/ /\ words[f[i]].top = words[f[j]].top
                   /\ words[f[i]].x0 = words[f[j]].x0
                   /\ f[i] < f[j]

\* C28: the clusters partition the words: none is empty and, put one after
\* the other, they are the words sorted by (top, x0), each word once.
C28_ClustersPartitionSortedWords ==
    pc = "lines_done" =>
        /\ \A c \in 1..Len(clusters) : Len(clusters[c]) >= 1
        /\ TotalLen(clusters, Len(clusters)) = Len(words)
        /\ \A f \in {PlacesByTopThenX0} :
              Flatten(clusters) = [i \in 1..Len(words) |-> words[f[i]]]

\* C28 witness: with line_tol = 0 three words given lowest first were put
\* into two clusters, the two words of equal top together.
C28_Witness ==
    /\ pc = "lines_done"
    /\ lineParams.line_tol = 0
    /\ Len(words) = 3
    /\ words[1].top > words[3].top
    /\ Len(clusters) = 2
    /\ Len(clusters[1]) = 2
    /\ clusters[1][1] = words[3]

(***************************************************************************)
(* Properties of process_redacted_pdfs and of the scan                     *)
(***************************************************************************)

\* C29: process_redacted_pdfs renders only files whose result has
\* should_process = true; a file without a box, without text under its
\* boxes, or whose analysis ended with an error is never rendered, whatever
\* the mode.
C29_OnlyFilesToProcessAreRendered ==
    prog = DetectProg =>
        \A k \in 1..Len(renderLog) :
            LET i == renderLog[k].file
            IN  /\ i \in 1..Len(results)
                /\ results[i].path = i
                /\ results[i].should_process
                /\ results[i].error = "None"
                /\ results[i].has_redaction_boxes
                /\ results[i].has_recoverable_text
                /\ files[i] = RecoverableDoc

\* C29 witness: of three files, the first without a box and the last one
\* unreadable, only the second was rendered, side by side.
C29_Witness ==
    /\ prog = DetectProg
    /\ pc = "exited"
    /\ args.mode = "side_by_side"
    /\ files = <<NoBoxDoc, RecoverableDoc, UnreadableLoudDoc>>
    /\ Len(renderLog) = 1
    /\ renderLog[1].file = 2

\* The result of a file but for its path.
Findings(r) ==
    [has_redaction_boxes |-> r.has_redaction_boxes,
     has_recoverable_text |-> r.has_recoverable_text,
     redaction_box_count |-> r.redaction_box_count,
     redacted_char_count |-> r.redacted_char_count,
     should_process |-> r.should_process, error |-> r.error]

\* C30: the scan of a directory returns one result per PDF found, in the
\* order of the list of files, and the result of a file is that of its own
\* analysis whatever the order the workers finish in: files alike have
\* results alike, and a result finished in the pool is already the one
\* returned.
C30_ScanResultsInFileOrder ==
    (prog = DetectProg /\ args.input = "dir") =>
        /\ pc = "pool" =>
              \A i \in DOMAIN pending :
                  pending[i] = AnalyzeFile(i, files[i])
        /\ pc \notin {"idle", "pool"} =>
              /\ Len(results) = Len(files)
              /\ \A i \in 1..Len(files) :
                    /\ results[i].path = i
                    /\ results[i] = AnalyzeFile(i, files[i])
                    /\ \A j \in 1..Len(files) :
                          files[i] = files[j] =>
                              Findings(results[i]) = Findings(results[j])

\* C30 witness: a directory of three different files was scanned; the
\* results came back in the order of the files, only the second to process.
C30_Witness ==
    /\ prog = DetectProg
    /\ args.input = "dir"
    /\ pc = "summary"
    /\ files = <<BoxNoTextDoc, RecoverableDoc, UnreadableDoc>>
    /\ DOMAIN pending = 1..3
    /\ [i \in 1..3 |-> results[i].path] = <<1, 2, 3>>
    /\ [i \in 1..3 |-> results[i].should_process] = <<FALSE, TRUE, FALSE>>
====
